---- MODULE Spec2Model ----
(***************************************************************************)
(* A model of the LINCS constraint kernel of GROMACS                        *)
(* (src/gromacs/mdlib/lincs_gpu_internal_sycl.cpp) and of the constraints   *)
(* test that drives it (src/gromacs/mdlib/tests/constr.cpp).                *)
(*                                                                         *)
(* Numbers.  The kernel computes in 32-bit floats.  Here every float is a   *)
(* signed fixed-point number: the integer n stands for n / Unit.  Products, *)
(* quotients and square roots are computed digit by digit so that no        *)
(* intermediate value leaves the 32-bit integers, and they truncate        *)
(* towards zero, so that rounding is part of the model.                     *)
(***************************************************************************)
EXTENDS Integers, Sequences, FiniteSets, TLC

\* ------------------------------------------------------------------------
\* Fixed-point arithmetic
\* ------------------------------------------------------------------------

\* The square root of Unit.  Unit is a multiple of 3, 12 and 16, so that the
\* masses of the test systems and their inverses are exact.
Base == 12 * 100

\* The integer that stands for 1.0.
Unit == Base * Base

Abs(a) == IF a < 0 THEN -a ELSE a

Sign(a) == IF a < 0 THEN -1 ELSE 1

\* Product of two non-negative fixed-point numbers, truncated.
MulPos(a, b) ==
    LET a1 == a \div Base
        a0 == a % Base
        b1 == b \div Base
        b0 == b % Base
    IN a1 * b1 + ((a1 * b0 + a0 * b1) + ((a0 * b0) \div Base)) \div Base

\* float * float
Mul(a, b) == Sign(a) * Sign(b) * MulPos(Abs(a), Abs(b))

\* Unit as a product of small factors, the digits of the long division.
UnitFactors == <<10, 10, 10, 10, 12, 12>>

RECURSIVE DivDigits(_, _, _, _)
\* Long division: the quotient q with remainder r, extended by the digits
\* k..Len(UnitFactors).
DivDigits(q, r, d, k) ==
    IF k > Len(UnitFactors) THEN q
    ELSE LET f == UnitFactors[k]
         IN DivDigits(q * f + ((r * f) \div d), (r * f) % d, d, k + 1)

\* Quotient of two positive fixed-point numbers, truncated.
DivPos(n, d) == DivDigits(n \div d, n % d, d, 1)

\* float / float
Div(n, d) == Sign(n) * Sign(d) * DivPos(Abs(n), Abs(d))

RECURSIVE Newton(_, _, _)
\* k Newton steps for the square root of a, from the estimate y > 0.
Newton(a, y, k) ==
    IF k = 0 \/ y = 0 THEN y
    ELSE Newton(a, (y + DivPos(a, y)) \div 2, k - 1)

RECURSIVE FirstGuess(_, _)
\* A power of two g (in fixed point) with g*g within a factor four of a.
FirstGuess(a, g) ==
    IF MulPos(g, g) > a /\ g > 1 THEN FirstGuess(a, g \div 2) ELSE g

\* sqrt(a) for a >= 0.
Sqrt(a) == IF a <= 0 THEN 0 ELSE Newton(a, FirstGuess(a, 32 * Unit), 8)

\* cl::sycl::rsqrt(a) for a > 0.
Rsqrt(a) == Div(Unit, Sqrt(a))

\* n thousandths and n ten-millionths as fixed-point numbers.
Milli(n) == n * (Unit \div 1000)

E7(n) == Sign(n) * ((Abs(n) * 18) \div 125)

\* ------------------------------------------------------------------------
\* Vectors (Float3, RVec): triples indexed 1..3 for XX, YY, ZZ
\* ------------------------------------------------------------------------

Zero3 == <<0, 0, 0>>

VAdd(a, b) == <<a[1] + b[1], a[2] + b[2], a[3] + b[3]>>

VSub(a, b) == <<a[1] - b[1], a[2] - b[2], a[3] - b[3]>>

VNeg(a) == <<-a[1], -a[2], -a[3]>>

\* Float3 * float
VScale(a, s) == <<Mul(a[1], s), Mul(a[2], s), Mul(a[3], s)>>

VDot(a, b) == Mul(a[1], b[1]) + Mul(a[2], b[2]) + Mul(a[3], b[3])

\* A C array: the sequence s indexed from 0.
Arr0(s) == [k \in 0 .. Len(s) - 1 |-> s[k + 1]]

\* ------------------------------------------------------------------------
\* The test systems (c_constraintsTestSystemList) and the PBCs (c_pbcs)
\* ------------------------------------------------------------------------

\* 0.1 / sqrt(2) and 0.2 / sqrt(3)
oneTenthOverSqrtTwo == Div(Milli(100), Sqrt(2 * Unit))

twoTenthsOverSqrtThree == Div(Milli(200), Sqrt(3 * Unit))

\* A vector given in thousandths.
MV(a, b, c) == <<Milli(a), Milli(b), Milli(c)>>

\* A tensor row given in ten-millionths.
TV(a, b, c) == <<E7(a), E7(b), E7(c)>>

\* The defaults of struct ConstraintsTestSystem.
SystemDefaults ==
    [shakeTolerance |-> E7(1000), shakeUseSOR |-> FALSE,
     lincsNIter |-> 1, lincslincsExpansionOrder |-> 4,
     lengthTolerance |-> E7(2000), comTolerance |-> E7(1000),
     virialTolerance |-> E7(1000), isTestSystem |-> TRUE]

\* r with the fields of the record d it does not set.
WithDefaults(r, d) ==
    [f \in DOMAIN r \cup DOMAIN d |-> IF f \in DOMAIN r THEN r[f] ELSE d[f]]

chainCoordinates ==
    Arr0(<<MV(2500, -3100, 15700), MV(510, -3020, 15550),
           MV(-500, -3000, 15200), MV(-1510, -2950, 15050)>>)

c_constraintsTestSystemList ==
    [OH |-> WithDefaults(
        [title |-> "one constraint (e.g. OH)", numAtoms |-> 2,
         masses |-> Arr0(<<Unit, 12 * Unit>>),
         constraints |-> Arr0(<< <<0, 0, 1>> >>),
         constraintsR0 |-> Arr0(<<Milli(100)>>),
         x |-> Arr0(<< <<0, oneTenthOverSqrtTwo, 0>>, <<oneTenthOverSqrtTwo, 0, 0>> >>),
         xPrime |-> Arr0(<<MV(10, 80, 10), MV(60, 10, -10)>>),
         v |-> Arr0(<<MV(1000, 2000, 3000), MV(3000, 2000, 1000)>>),
         virialScaledRef |-> <<TV(-5580, 5580, 0), TV(5580, -5580, 0), TV(0, 0, 0)>>],
        SystemDefaults),
     disjoint |-> WithDefaults(
        [title |-> "two disjoint constraints", numAtoms |-> 4,
         masses |-> Arr0(<<Unit \div 2, Unit \div 3, Unit \div 4, Unit>>),
         constraints |-> Arr0(<< <<0, 0, 1>>, <<1, 2, 3>> >>),
         constraintsR0 |-> Arr0(<<Milli(2000), Milli(1000)>>),
         x |-> chainCoordinates,
         xPrime |-> chainCoordinates,
         v |-> Arr0(<<MV(0, 1000, 0), MV(1000, 0, 0), MV(0, 0, 1000), MV(0, 0, 0)>>),
         virialScaledRef |-> <<TV(33000, -1700, 5600), TV(-1700, 89, -280), TV(5600, -280, 890)>>],
        SystemDefaults),
     CH2 |-> WithDefaults(
        [title |-> "three atoms, connected longitudinally (e.g. CH2)", numAtoms |-> 3,
         masses |-> Arr0(<<Unit, 12 * Unit, 16 * Unit>>),
         constraints |-> Arr0(<< <<0, 0, 1>>, <<1, 1, 2>> >>),
         constraintsR0 |-> Arr0(<<Milli(100), Milli(200)>>),
         x |-> Arr0(<< <<oneTenthOverSqrtTwo, oneTenthOverSqrtTwo, 0>>, <<0, 0, 0>>,
                       <<twoTenthsOverSqrtThree, twoTenthsOverSqrtThree, twoTenthsOverSqrtThree>> >>),
         xPrime |-> Arr0(<<MV(80, 70, 10), MV(-20, 10, -20), MV(100, 120, 110)>>),
         v |-> Arr0(<<MV(1000, 0, 0), MV(0, 1000, 0), MV(0, 0, 1000)>>),
         virialScaledRef |-> <<TV(41400, 41400, 33100), TV(41400, 41400, 33100),
                               TV(33100, 33100, 33100)>>],
        SystemDefaults),
     chain |-> WithDefaults(
        [title |-> "four atoms, connected longitudinally", numAtoms |-> 4,
         masses |-> Arr0(<<Unit \div 2, Unit \div 3, Unit \div 4, Unit>>),
         constraints |-> Arr0(<< <<0, 0, 1>>, <<1, 1, 2>>, <<2, 2, 3>> >>),
         constraintsR0 |-> Arr0(<<Milli(2000), Milli(1000), Milli(1000)>>),
         x |-> chainCoordinates,
         xPrime |-> chainCoordinates,
         v |-> Arr0(<<MV(0, 0, 2000), MV(0, 0, 3000), MV(0, 0, -4000), MV(0, 0, -1000)>>),
         virialScaledRef |-> <<TV(1150000, -42000, 212000), TV(-42000, 1700, -6410),
                               TV(212000, -6410, 54500)>>,
         lincsNIter |-> 4, lincslincsExpansionOrder |-> 8,
         virialTolerance |-> E7(100000)],
        SystemDefaults),
     CH3 |-> WithDefaults(
        [title |-> "three atoms, connected to the central atom (e.g. CH3)", numAtoms |-> 4,
         masses |-> Arr0(<<12 * Unit, Unit, Unit, Unit>>),
         constraints |-> Arr0(<< <<0, 0, 1>>, <<0, 0, 2>>, <<0, 0, 3>> >>),
         constraintsR0 |-> Arr0(<<Milli(100)>>),
         x |-> Arr0(<<MV(0, 0, 0), MV(100, 0, 0), MV(0, -100, 0), MV(0, 0, 100)>>),
         xPrime |-> Arr0(<<MV(4, 9, -10), MV(110, -6, 3), MV(-7, -102, -7), MV(-5, 11, 102)>>),
         v |-> Arr0(<<MV(1000, 0, 0), MV(1000, 0, 0), MV(1000, 0, 0), MV(1000, 0, 0)>>),
         virialScaledRef |-> <<TV(7140, 0, 0), TV(0, 10800, 0), TV(0, 0, 11500)>>],
        SystemDefaults),
     triangle |-> WithDefaults(
        [title |-> "basic triangle (three atoms, connected to each other)", numAtoms |-> 3,
         masses |-> Arr0(<<Unit, Unit, Unit>>),
         constraints |-> Arr0(<< <<0, 0, 1>>, <<2, 0, 2>>, <<1, 1, 2>> >>),
         constraintsR0 |-> Arr0(<<Milli(100), Milli(100), Milli(100)>>),
         x |-> Arr0(<< <<oneTenthOverSqrtTwo, 0, 0>>, <<0, oneTenthOverSqrtTwo, 0>>,
                       <<0, 0, oneTenthOverSqrtTwo>> >>),
         xPrime |-> Arr0(<<MV(90, -20, 10), MV(-20, 100, -20), MV(30, -10, 70)>>),
         v |-> Arr0(<<MV(1000, 1000, 1000), MV(-2000, -2000, -2000), MV(1000, 1000, 1000)>>),
         virialScaledRef |-> <<TV(6000, -16100, 10100), TV(-16100, 25300, -9250),
                               TV(10100, -9250, -805)>>],
        SystemDefaults)]

\* The boxes of c_pbcs: PbcType::No with an empty box, PbcType::Xyz with a
\* rectangular box.  A box is the triple of its diagonal.
c_pbcs == [No |-> Zero3, Xyz |-> <<10 * Unit, 20 * Unit, 15 * Unit>>]

\* Two CH2 groups side by side: a system with two groups of coupled
\* constraints, which a launch can place in two thread blocks.
Twice(a, shift) == [k \in 0 .. 5 |-> IF k < 3 THEN a[k] ELSE VAdd(a[k - 3], shift)]

Doubled(one, shift) ==
    [one EXCEPT !.title = "two CH2 groups", !.numAtoms = 6,
                !.masses = [k \in 0 .. 5 |-> @[k % 3]],
                !.constraints = Arr0(<< <<0, 0, 1>>, <<1, 1, 2>>, <<0, 3, 4>>, <<1, 4, 5>> >>),
                !.x = Twice(@, shift), !.xPrime = Twice(@, shift), !.v = Twice(@, shift),
                !.lincsNIter = 1, !.lincslincsExpansionOrder = 2,
                !.isTestSystem = FALSE]

twoBends == Doubled(c_constraintsTestSystemList.CH2, MV(1000, 0, 0))

\* The system of one constraint with positions to constrain that are turned
\* away from the direction of the constraint: after the first solve the pair
\* is longer than sqrt(2) times its target length.
turned ==
    [c_constraintsTestSystemList.OH EXCEPT
        !.title = "one constraint, turned",
        !.xPrime = Arr0(<<MV(0, 0, 0), MV(100, 100, 150)>>),
        !.isTestSystem = FALSE]

\* All systems the model runs: the test systems and the two above.
Systems ==
    [n \in DOMAIN c_constraintsTestSystemList \cup {"twoBends", "turned"} |->
        CASE n = "twoBends" -> twoBends
          [] n = "turned" -> turned
          [] OTHER -> c_constraintsTestSystemList[n]]

SystemNames == DOMAIN Systems

\* ConstraintsTestData: 1 / mass, and 1 / timestep for the timestep 0.001
\* that the test passes.
InverseMasses(sys) == [a \in DOMAIN sys.masses |-> Div(Unit, sys.masses[a])]

invdt_ == 1000 * Unit

\* ------------------------------------------------------------------------
\* The constraint layout handed to the kernel (LincsGpuKernelParameters)
\* ------------------------------------------------------------------------

\* A layout places the constraints of a system on the threads of a launch:
\* slots[t] is the constraint of thread t, or -1 for a dummy thread.
Pad(seq, n) == [t \in 0 .. n - 1 |-> IF t < Len(seq) THEN seq[t + 1] ELSE -1]

InOrder(k) == [c \in 1 .. k |-> c - 1]

RECURSIVE Ascending(_)
\* The elements of a finite set of integers in ascending order.
Ascending(S) ==
    IF S = {} THEN <<>>
    ELSE LET lo == CHOOSE a \in S : \A b \in S : a <= b
         IN <<lo>> \o Ascending(S \ {lo})

\* The constraints of sys that are coupled to one of S, directly or through
\* other constraints: the group of coupled constraints of S.
RECURSIVE CoupledGroup(_, _)
CoupledGroup(sys, S) ==
    LET more == {d \in DOMAIN sys.constraints :
                    \E e \in S : {sys.constraints[d][2], sys.constraints[d][3]}
                                     \cap {sys.constraints[e][2], sys.constraints[e][3]} # {}}
    IN IF more \subseteq S THEN S ELSE CoupledGroup(sys, S \cup more)

\* The threads filled so far (seq), then the groups of the constraints left
\* (todo): a group that does not fit the rest of the current block starts
\* the next one, and the threads left over are dummy threads.
RECURSIVE PlaceGroups(_, _, _, _)
PlaceGroups(sys, threadsPerBlock, todo, seq) ==
    IF todo = {} THEN seq
    ELSE LET group == CoupledGroup(sys, {CHOOSE c \in todo : \A d \in todo : c <= d})
             room == (threadsPerBlock - (Len(seq) % threadsPerBlock)) % threadsPerBlock
             dummies == IF Cardinality(group) > room THEN room ELSE 0
         IN PlaceGroups(sys, threadsPerBlock, todo \ group,
                        seq \o [k \in 1 .. dummies |-> -1] \o Ascending(group))

\* Thread blocks filled in the order of the constraints, a group of coupled
\* constraints split where a block ends.
PlaceInOrder(sys, threadsPerBlock) ==
    Pad(Ascending(DOMAIN sys.constraints),
        threadsPerBlock * ((Cardinality(DOMAIN sys.constraints) + threadsPerBlock - 1)
                              \div threadsPerBlock))

\* The layout that LincsGpu::set makes: whole blocks of threadsPerBlock
\* threads, no group of coupled constraints split between two of them.
Place(sys, threadsPerBlock) ==
    Pad(PlaceGroups(sys, threadsPerBlock, DOMAIN sys.constraints, <<>>),
        threadsPerBlock * ((Len(PlaceGroups(sys, threadsPerBlock, DOMAIN sys.constraints, <<>>))
                              + threadsPerBlock - 1) \div threadsPerBlock))

Layouts ==
    [OH |-> [sys |-> "OH", threadsPerBlock |-> 8, slots |-> Pad(InOrder(1), 8)],
     disjoint |-> [sys |-> "disjoint", threadsPerBlock |-> 8, slots |-> Pad(InOrder(2), 8)],
     CH2 |-> [sys |-> "CH2", threadsPerBlock |-> 8, slots |-> Pad(InOrder(2), 8)],
     chain |-> [sys |-> "chain", threadsPerBlock |-> 8, slots |-> Pad(InOrder(3), 8)],
     CH3 |-> [sys |-> "CH3", threadsPerBlock |-> 8, slots |-> Pad(InOrder(3), 8)],
     triangle |-> [sys |-> "triangle", threadsPerBlock |-> 8, slots |-> Pad(InOrder(3), 8)],
     disjointSplit |-> [sys |-> "disjoint", threadsPerBlock |-> 8,
                        slots |-> Pad(<<-1, 1, -1, -1, -1, -1, -1, -1, 0>>, 16)],
     twoBends |-> [sys |-> "twoBends", threadsPerBlock |-> 2, slots |-> Pad(InOrder(4), 4)],
     oneBend |-> [sys |-> "twoBends", threadsPerBlock |-> 8, slots |-> Pad(InOrder(2), 8)],
     placed |-> [sys |-> "twoBends", threadsPerBlock |-> 3, slots |-> Place(twoBends, 3)],
     placedWide |-> [sys |-> "chain", threadsPerBlock |-> 8,
                     slots |-> Place(c_constraintsTestSystemList.chain, 8)],
     turned |-> [sys |-> "turned", threadsPerBlock |-> 8, slots |-> Pad(InOrder(1), 8)],
     tooNarrow |-> [sys |-> "CH2", threadsPerBlock |-> 1,
                    slots |-> Place(c_constraintsTestSystemList.CH2, 1)],
     twoBendsWide |-> [sys |-> "twoBends", threadsPerBlock |-> 8,
                       slots |-> Pad(<<0, 1, -1, -1, -1, -1, -1, -1, 2, 3>>, 16)]]

LayoutNames == DOMAIN Layouts

RECURSIVE MaxOf(_)
MaxOf(S) == IF S = {} THEN 0
            ELSE LET a == CHOOSE b \in S : TRUE
                     r == MaxOf(S \ {a})
                 IN IF a > r THEN a ELSE r

\* What LincsGpu::set hands to the kernel for the system sys in layout L.
BuildParams(L, sys) ==
    LET numThreads == Cardinality(DOMAIN L.slots)
        Threads == 0 .. numThreads - 1
        inv == InverseMasses(sys)
        AtomsOf(t) == IF L.slots[t] = -1 THEN {}
                      ELSE {sys.constraints[L.slots[t]][2], sys.constraints[L.slots[t]][3]}
        First(t) == sys.constraints[L.slots[t]][2]
        Second(t) == sys.constraints[L.slots[t]][3]
        Coupled(t) == Ascending({u \in Threads : u # t /\ AtomsOf(u) \cap AtomsOf(t) # {}})
        maxCoupled == MaxOf({Len(Coupled(t)) : t \in Threads})
        sqrtmu(t) == Rsqrt(inv[First(t)] + inv[Second(t)])
        center(t, u) == CHOOSE a \in AtomsOf(t) \cap AtomsOf(u) : TRUE
        sign(t, u) == IF First(t) = First(u) \/ Second(t) = Second(u) THEN -1 ELSE 1
        massFactor(t, u) == sign(t, u) * Mul(Mul(inv[center(t, u)], sqrtmu(t)), sqrtmu(u))
    IN [numConstraintsThreads |-> numThreads,
        numBlocks |-> numThreads \div L.threadsPerBlock,
        constraints |-> [t \in Threads |->
            IF L.slots[t] = -1 THEN <<-1, -1>> ELSE <<First(t), Second(t)>>],
        constraintsTargetLengths |-> [t \in Threads |->
            IF L.slots[t] = -1 THEN 0
            ELSE sys.constraintsR0[sys.constraints[L.slots[t]][1]]],
        coupledConstraintsCounts |-> [t \in Threads |-> Len(Coupled(t))],
        coupledConstraintsIndices |-> [k \in 0 .. maxCoupled * numThreads - 1 |->
            LET t == k % numThreads
                n == k \div numThreads
            IN IF n < Len(Coupled(t)) THEN Coupled(t)[n + 1] ELSE -1],
        massFactors |-> [k \in 0 .. maxCoupled * numThreads - 1 |->
            LET t == k % numThreads
                n == k \div numThreads
            IN IF n < Len(Coupled(t)) THEN massFactor(t, Coupled(t)[n + 1]) ELSE 0],
        inverseMasses |-> inv,
        haveCoupledConstraints |-> maxCoupled > 0,
        numIterations |-> sys.lincsNIter,
        expansionOrder |-> sys.lincslincsExpansionOrder]

\* ------------------------------------------------------------------------
\* State
\* ------------------------------------------------------------------------

VARIABLES
    cfg,                \* the launch: layout, PBC, template flags, device, and
                        \* the system and kernel parameters set for it
    stage,              \* where the test body is: reset, apply, kernel, check, end,
                        \* fault when the process has faulted, or fatal when the
                        \* set-up has ended with a fatal error
    runner,             \* index of the current runner in getRunners()
    xPrime_, v_, virialScaled_,     \* ConstraintsTestData, the mutable part
    applied,            \* per runner, the data it was applied to (history)
    passed,             \* per runner, the outcome of the five checks
    d_xp, d_v,          \* device positions and velocities
    d_virialScaled,     \* device virial accumulator, 6 floats
    d_matrixA,          \* kernelParams.d_matrixA
    sm_r, sm_rhs, sm_threadVirial,  \* local memory, per block
    pc,                 \* per thread, the barrier it waits at
    nbar,               \* per thread, the number of barriers it arrived at
    loc,                \* per thread, its private variables
    hist,               \* per thread, the values it stored to sm_rhs (history)
    virialAdds,         \* per block and component, the atomic adds to the virial (history)
    ran,                \* the number of steps that the threads of the launch have run
    \* PmePpCommGpu::Impl of a PP rank, its device and its PME rank
    threadMpi,          \* GMX_THREAD_MPI of the build
    receivePmeForceToGpu,   \* the argument of receiveForceFromPme in this run
    d_pmeForces_,       \* the staging buffer: 0 for nullptr, else the number of
                        \* its allocation
    d_pmeForcesSize_, d_pmeForcesSizeAlloc_,    \* its actual and reserved counts
    remotePmeXBuffer_,  \* the address received from the PME rank, or "unset"
    ppPc,               \* where the PP rank's host thread is
    step,               \* the MD step of the PP rank
    reinits,            \* the number of calls of reinit, and the size of the last
    streams,            \* per stream, the operations enqueued and how many have run
    events,             \* per event, the marks enqueued and the last one completed
    x,                  \* the coordinates on the PP device, as the step they are of
    stagingF, cpuF,     \* the contents of *d_pmeForces_ and of *pmeCpuForceBuffer_
    toPme, toPp,        \* the messages in flight, in order
    remoteX, pmeF,      \* the PME rank's coordinates and forces
    pmeAddr,            \* the addresses the PME rank holds of the PP rank's force buffers
    arrived,            \* the coordinates that were written to the PME rank (history)
    consumed            \* the PME forces that went into a reduction (history)

host == <<stage, runner, xPrime_, v_, virialScaled_, applied, passed>>

device == <<d_xp, d_v, d_virialScaled, d_matrixA, sm_r, sm_rhs, sm_threadVirial,
            pc, nbar, loc, hist, virialAdds, ran>>

build == <<threadMpi, receivePmeForceToGpu>>

staging == <<d_pmeForces_, d_pmeForcesSize_, d_pmeForcesSizeAlloc_>>

data == <<x, stagingF, cpuF, remoteX, pmeF, arrived, consumed>>

pmePp == <<build, staging, remotePmeXBuffer_, ppPc, step, reinits, streams, events,
           toPme, toPp, pmeAddr, data>>

constraining == <<cfg, host, device>>

vars == <<constraining, pmePp>>

\* The launch parameters.
KP == cfg.kernelParams

TheSystem == cfg.system

c_threadsPerBlock == cfg.threadsPerBlock

numConstraintsThreads == KP.numConstraintsThreads

Threads == 0 .. numConstraintsThreads - 1

Blocks == 0 .. KP.numBlocks - 1

Atoms == DOMAIN TheSystem.masses

\* itemIdx.get_group_linear_id() and get_local_linear_id() of thread t.
BlockOf(t) == t \div c_threadsPerBlock

ThreadInBlock(t) == t % c_threadsPerBlock

a_x == TheSystem.x

pbcAiuc == c_pbcs[cfg.pbc]

\* ------------------------------------------------------------------------
\* Memory
\* ------------------------------------------------------------------------

\* What a read outside a local accessor's range, or of a local element that
\* was never written, returns.  The device decides: the value last stored at
\* that address ("kept"), zero, or another value.
Junk == -(Unit \div 2)

Uninitialized == IF cfg.oob = "junk" THEN Junk ELSE 0

OutOfRange(stored) ==
    CASE cfg.oob = "kept" -> stored
      [] cfg.oob = "zero" -> 0
      [] OTHER -> Junk

\* Read of element idx of a local accessor of the given range.
LocalRead(buf, range, idx) ==
    IF idx < range THEN buf[idx] ELSE OutOfRange(buf[idx])

LocalRead3(buf, range, idx) ==
    IF idx < range THEN buf[idx]
    ELSE <<OutOfRange(buf[idx][1]), OutOfRange(buf[idx][2]), OutOfRange(buf[idx][3])>>

\* The local memory a block can address through sm_r and sm_rhs: the
\* accessor's range and what lies behind it.
SmRIndices == 0 .. numConstraintsThreads - 1

SmRhsIndices == 0 .. numConstraintsThreads + c_threadsPerBlock - 1

SmVirialIndices == 0 .. 6 * c_threadsPerBlock - 1

\* pbcDxAiucSycl for a rectangular box: the minimum-image displacement.
Rint(a, b) == IF b = 0 THEN 0 ELSE (2 * a + b) \div (2 * b)

pbcDxAiucSycl(box, r1, r2) ==
    LET dr == VSub(r1, r2)
        Image(d) == dr[d] - Rint(dr[d], box[d]) * box[d]
    IN <<Image(1), Image(2), Image(3)>>

\* ------------------------------------------------------------------------
\* The kernel, lincsKernel: the code of one thread between two barriers
\*
\* A machine state m is the record of the device variables.  Each operator
\* below is one stretch of the kernel, applied by thread t to m.
\* ------------------------------------------------------------------------

Machine ==
    [xp |-> d_xp, v |-> d_v, virial |-> d_virialScaled, matrixA |-> d_matrixA,
     sm_r |-> sm_r, sm_rhs |-> sm_rhs, sm_threadVirial |-> sm_threadVirial,
     loc |-> loc, hist |-> hist, virialAdds |-> virialAdds]

\* The private variables of a thread before it starts.
NoLocals ==
    [i |-> -1, j |-> -1, isDummyThread |-> TRUE, targetLength |-> 0,
     inverseMassi |-> 0, inverseMassj |-> 0, sqrtReducedMass |-> 0,
     xi |-> Zero3, xj |-> Zero3, rc |-> Zero3, coupledConstraintsCount |-> 0,
     sol |-> 0, lagrangeScaled |-> 0, reads |-> <<>>]

\* Direction with a target length, a reduced mass and a direction left in the
\* private variables of a dummy thread.
DirectionDummyUnit(m, t) ==
    LET pair == KP.constraints[t]
        i == pair[1]
        j == pair[2]
        isDummyThread == (i = -1)
        inverseMassi == KP.inverseMasses[i]
        inverseMassj == KP.inverseMasses[j]
        dx == pbcDxAiucSycl(pbcAiuc, a_x[i], a_x[j])
        rlen == Rsqrt(VDot(dx, dx))
        L == IF isDummyThread
             THEN [NoLocals EXCEPT !.i = i, !.j = j, !.targetLength = Unit,
                      !.sqrtReducedMass = Unit, !.rc = <<Unit, 0, 0>>]
             ELSE [NoLocals EXCEPT !.i = i, !.j = j, !.isDummyThread = FALSE,
                      !.targetLength = KP.constraintsTargetLengths[t],
                      !.inverseMassi = inverseMassi, !.inverseMassj = inverseMassj,
                      !.sqrtReducedMass = Rsqrt(inverseMassi + inverseMassj),
                      !.xi = a_x[i], !.xj = a_x[j],
                      !.rc = VScale(dx, rlen)]
    IN [m EXCEPT !.loc[t] = L, !.sm_r[BlockOf(t)][t] = L.rc]

\* Lines 174-226: collect the data of the constraint, compute the direction
\* rc at x and store it to sm_r[threadIndex].
Direction(m, t) ==
    LET pair == KP.constraints[t]
        i == pair[1]
        j == pair[2]
        isDummyThread == (i = -1)
        inverseMassi == KP.inverseMasses[i]
        inverseMassj == KP.inverseMasses[j]
        dx == pbcDxAiucSycl(pbcAiuc, a_x[i], a_x[j])
        rlen == Rsqrt(VDot(dx, dx))
        L == IF isDummyThread
             THEN [NoLocals EXCEPT !.i = i, !.j = j]
             ELSE [NoLocals EXCEPT !.i = i, !.j = j, !.isDummyThread = FALSE,
                      !.targetLength = KP.constraintsTargetLengths[t],
                      !.inverseMassi = inverseMassi, !.inverseMassj = inverseMassj,
                      !.sqrtReducedMass = Rsqrt(inverseMassi + inverseMassj),
                      !.xi = a_x[i], !.xj = a_x[j],
                      !.rc = VScale(dx, rlen)]
    IN [m EXCEPT !.loc[t] = L, !.sm_r[BlockOf(t)][t] = L.rc]

\* CoupledIndex with the index of the thread in its block.
CoupledIndexInBlock(n, t) == n * numConstraintsThreads + ThreadInBlock(t)

\* Index of slot n of thread t in the coupled-constraint arrays.
CoupledIndex(n, t) == n * numConstraintsThreads + t

\* Lines 231-248: the row of thread t of the matrix A.
RECURSIVE MatrixRow(_, _, _, _)
MatrixRow(m, t, n, count) ==
    IF n >= count THEN m
    ELSE LET index == CoupledIndex(n, t)
             c1 == KP.coupledConstraintsIndices[index]
             rc1 == LocalRead3(m.sm_r[BlockOf(t)], c_threadsPerBlock, c1)
             value == Mul(KP.massFactors[index], VDot(m.loc[t].rc, rc1))
         IN MatrixRow([m EXCEPT !.matrixA[index] = value], t, n + 1, count)

Matrix(m, t) ==
    IF KP.haveCoupledConstraints
    THEN LET count == KP.coupledConstraintsCounts[t]
         IN MatrixRow([m EXCEPT !.loc[t].coupledConstraintsCount = count], t, 0, count)
    ELSE m

\* Lines 251-259 and 326-334: atomicLoad of the positions of both atoms.
LoadXp(m, t) ==
    IF m.loc[t].isDummyThread THEN m
    ELSE [m EXCEPT !.loc[t].xi = m.xp[m.loc[t].i], !.loc[t].xj = m.xp[m.loc[t].j]]

\* A store of thread t to sm_rhs, kept in its history.
StoreRhs(m, t, idx, value) ==
    [m EXCEPT !.sm_rhs[BlockOf(t)][idx] = value, !.hist[t] = Append(@, value)]

\* Lines 261-271: the right-hand side of the first solve.
Rhs(m, t) ==
    LET L == m.loc[t]
        dx == pbcDxAiucSycl(pbcAiuc, L.xi, L.xj)
        sol == Mul(L.sqrtReducedMass, VDot(L.rc, dx) - L.targetLength)
    IN StoreRhs([m EXCEPT !.loc[t].sol = sol, !.loc[t].reads = <<>>], t, ThreadInBlock(t), sol)

\* Projection with the square root taken of the magnitude of dlen2, whatever
\* its sign.
ProjectionOfMagnitude(m, t) ==
    LET L == m.loc[t]
        dx == pbcDxAiucSycl(pbcAiuc, L.xi, L.xj)
        len2 == Mul(L.targetLength, L.targetLength)
        dlen2 == Abs(Mul(2 * Unit, len2) - VDot(dx, dx))
        proj == IF dlen2 > 0
                THEN Mul(L.sqrtReducedMass, L.targetLength - Mul(dlen2, Rsqrt(dlen2)))
                ELSE Mul(L.sqrtReducedMass, L.targetLength)
    IN StoreRhs([m EXCEPT !.loc[t].sol = proj, !.loc[t].reads = <<>>], t, ThreadInBlock(t), proj)

\* Lines 336-355: the right-hand side of a centripetal pass.
Projection(m, t) ==
    LET L == m.loc[t]
        dx == pbcDxAiucSycl(pbcAiuc, L.xi, L.xj)
        len2 == Mul(L.targetLength, L.targetLength)
        dlen2 == Mul(2 * Unit, len2) - VDot(dx, dx)
        proj == IF dlen2 > 0
                THEN Mul(L.sqrtReducedMass, L.targetLength - Mul(dlen2, Rsqrt(dlen2)))
                ELSE Mul(L.sqrtReducedMass, L.targetLength)
    IN StoreRhs([m EXCEPT !.loc[t].sol = proj, !.loc[t].reads = <<>>], t, ThreadInBlock(t), proj)

\* Lines 281-288 and 367-373: the values read from sm_rhs in iteration rec.
ReadsOf(m, t, rec) ==
    [n \in 1 .. m.loc[t].coupledConstraintsCount |->
        LET c1 == KP.coupledConstraintsIndices[CoupledIndex(n - 1, t)]
        IN LocalRead(m.sm_rhs[BlockOf(t)], c_threadsPerBlock,
                     c1 + c_threadsPerBlock * (rec % 2))]

RECURSIVE Convolute(_, _, _, _, _)
\* mvb after the slots n..count-1, from the value mvb after the slots before.
Convolute(m, t, reads, n, mvb) ==
    IF n >= Len(reads) THEN mvb
    ELSE Convolute(m, t, reads, n + 1,
                   mvb + Mul(m.matrixA[CoupledIndex(n, t)], reads[n + 1]))

\* Expand with a diagonal entry of A: a quarter of the thread's own value of
\* the iteration before among the terms.
ExpandWithOwn(m, t, rec) ==
    LET reads == ReadsOf(m, t, rec)
        mvb == Convolute(m, t, reads, 0, 0)
                   + m.sm_rhs[BlockOf(t)][ThreadInBlock(t) + c_threadsPerBlock * (rec % 2)] \div 4
        m1 == [m EXCEPT !.loc[t].reads = reads, !.loc[t].sol = @ + mvb]
    IN StoreRhs(m1, t, ThreadInBlock(t) + c_threadsPerBlock * ((rec + 1) % 2), mvb)

\* Lines 279-292 and 365-376: one iteration of the expansion, after its barrier.
Expand(m, t, rec) ==
    LET reads == ReadsOf(m, t, rec)
        mvb == Convolute(m, t, reads, 0, 0)
        m1 == [m EXCEPT !.loc[t].reads = reads, !.loc[t].sol = @ + mvb]
    IN StoreRhs(m1, t, ThreadInBlock(t) + c_threadsPerBlock * ((rec + 1) % 2), mvb)

\* AddToAtoms with the correction of atom j subtracted like that of atom i.
AddToAtomsSameSign(arr, L, tmp) ==
    [arr EXCEPT ![L.i] = VAdd(@, VScale(VNeg(tmp), L.inverseMassi)),
                ![L.j] = VAdd(@, VScale(VNeg(tmp), L.inverseMassj))]

\* The six atomicFetchAdd of a correction tmp to the atoms of thread t.
AddToAtoms(arr, L, tmp) ==
    [arr EXCEPT ![L.i] = VAdd(@, VScale(VNeg(tmp), L.inverseMassi)),
                ![L.j] = VAdd(@, VScale(tmp, L.inverseMassj))]

\* Lines 296-315: the Lagrange multiplier and the position correction of the
\* first solve.
Correct(m, t) ==
    LET L == m.loc[t]
        lagrangeScaled == Mul(L.sqrtReducedMass, L.sol)
        tmp == VScale(L.rc, lagrangeScaled)
        m1 == [m EXCEPT !.loc[t].lagrangeScaled = lagrangeScaled]
    IN IF L.isDummyThread THEN m1
       ELSE [m1 EXCEPT !.xp = AddToAtoms(m.xp, L, tmp)]

\* Lines 380-395: the same in a centripetal pass.
CorrectAgain(m, t) ==
    LET L == m.loc[t]
        sqrtmu_sol == Mul(L.sqrtReducedMass, L.sol)
        tmp == VScale(L.rc, sqrtmu_sol)
        m1 == [m EXCEPT !.loc[t].lagrangeScaled = @ + sqrtmu_sol]
    IN IF L.isDummyThread THEN m1
       ELSE [m1 EXCEPT !.xp = AddToAtoms(m.xp, L, tmp)]

\* Velocities with the inverse mass of atom i used for both atoms.
VelocitiesOneMass(m, t) ==
    LET L == m.loc[t]
        tmp == VScale(VScale(L.rc, invdt_), L.lagrangeScaled)
    IN IF L.isDummyThread THEN m
       ELSE [m EXCEPT !.v = AddToAtoms(m.v, [L EXCEPT !.inverseMassj = L.inverseMassi], tmp)]

\* Velocities with the correction of the positions, not divided by the time step.
VelocitiesWithoutInvdt(m, t) ==
    LET L == m.loc[t]
        tmp == VScale(L.rc, L.lagrangeScaled)
    IN IF L.isDummyThread THEN m
       ELSE [m EXCEPT !.v = AddToAtoms(m.v, L, tmp)]

\* Lines 398-411: the velocity update.
Velocities(m, t) ==
    LET L == m.loc[t]
        tmp == VScale(VScale(L.rc, invdt_), L.lagrangeScaled)
    IN IF L.isDummyThread THEN m
       ELSE [m EXCEPT !.v = AddToAtoms(m.v, L, tmp)]

\* The components [XX, XY, XZ, YY, YZ, ZZ] of the virial.
VirialComponents == <<<<1, 1>>, <<1, 2>>, <<1, 3>>, <<2, 2>>, <<2, 3>>, <<3, 3>>>>

\* Lines 426-435: the virial of thread t, stored to sm_threadVirial.
ThreadVirial(m, t) ==
    LET L == m.loc[t]
        mult == Mul(L.targetLength, L.lagrangeScaled)
        Value(d) == Mul(Mul(mult, L.rc[VirialComponents[d + 1][1]]),
                        L.rc[VirialComponents[d + 1][2]])
        tib == ThreadInBlock(t)
        Slot(d) == d * c_threadsPerBlock + tib
    IN [m EXCEPT !.sm_threadVirial[BlockOf(t)] =
            [@ EXCEPT ![Slot(0)] = Value(0), ![Slot(1)] = Value(1), ![Slot(2)] = Value(2),
                      ![Slot(3)] = Value(3), ![Slot(4)] = Value(4), ![Slot(5)] = Value(5)]]

\* Lines 450-458: one round of the reduction in the block.
Reduce(m, t, divideBy) ==
    LET blockSize == c_threadsPerBlock
        dividedAt == blockSize \div divideBy
        tib == ThreadInBlock(t)
        old == m.sm_threadVirial[BlockOf(t)]
        Slot(d) == d * blockSize + tib
        Value(d) == old[Slot(d)] + old[Slot(d) + dividedAt]
    IN IF tib < dividedAt
       THEN [m EXCEPT !.sm_threadVirial[BlockOf(t)] =
               [@ EXCEPT ![Slot(0)] = Value(0), ![Slot(1)] = Value(1), ![Slot(2)] = Value(2),
                         ![Slot(3)] = Value(3), ![Slot(4)] = Value(4), ![Slot(5)] = Value(5)]]
       ELSE m

\* AddVirial reading element tib instead of the first element of component tib.
AddVirialUnstrided(m, t) ==
    LET tib == ThreadInBlock(t)
    IN IF tib < 6
       THEN [m EXCEPT !.virial[tib] = @ + m.sm_threadVirial[BlockOf(t)][tib],
                      !.virialAdds[BlockOf(t)][tib] = @ + 1]
       ELSE m

\* AddVirial storing the block's total instead of adding it.
AddVirialOverwrite(m, t) ==
    LET tib == ThreadInBlock(t)
    IN IF tib < 6
       THEN [m EXCEPT !.virial[tib] = m.sm_threadVirial[BlockOf(t)][tib * c_threadsPerBlock],
                      !.virialAdds[BlockOf(t)][tib] = @ + 1]
       ELSE m

\* Lines 468-472: the first six threads add the block's virial to the
\* accumulator.
AddVirial(m, t) ==
    LET tib == ThreadInBlock(t)
    IN IF tib < 6
       THEN [m EXCEPT !.virial[tib] =
                @ + m.sm_threadVirial[BlockOf(t)][tib * c_threadsPerBlock],
                      !.virialAdds[BlockOf(t)][tib] = @ + 1]
       ELSE m

\* ------------------------------------------------------------------------
\* Control flow of a thread: from one barrier to the next
\* ------------------------------------------------------------------------

\* Positions of a thread.  "b229" .. "b437" are the barriers at these lines of
\* the kernel, "b461" the barrier that ends a round of the reduction (line 461
\* or 465); iter = -1 stands for the solve before the centripetal loop.
At(label, iter, rec, divideBy) ==
    [at |-> label, iter |-> iter, rec |-> rec, divideBy |-> divideBy]

Start == At("start", -1, 0, 0)

Done == At("done", -1, 0, 0)

\* A thread that has run m up to the position p.
Arrive(m, p) == [m |-> m, pc |-> p]

\* Lines 448-472 from the round divideBy on.
Round(m, t, divideBy) ==
    IF divideBy <= c_threadsPerBlock
    THEN Arrive(Reduce(m, t, divideBy), At("b461", -1, 0, divideBy))
    ELSE Arrive(AddVirial(m, t), Done)

\* AfterPasses with the velocity update compiled in whatever the flag.
AfterPassesWithVelocities(m, t) ==
    IF cfg.computeVirial
    THEN Arrive(ThreadVirial(Velocities(m, t), t), At("b437", -1, 0, 0))
    ELSE Arrive(Velocities(m, t), Done)

\* Lines 398-437: after the last pass.
AfterPasses(m, t) ==
    LET m1 == IF cfg.updateVelocities THEN Velocities(m, t) ELSE m
    IN IF cfg.computeVirial
       THEN Arrive(ThreadVirial(m1, t), At("b437", -1, 0, 0))
       ELSE Arrive(m1, Done)

\* Line 320: the head of the centripetal loop.
Pass(m, t, iter) ==
    IF iter < KP.numIterations
    THEN Arrive(m, At("b324", iter, 0, 0))
    ELSE AfterPasses(m, t)

\* Expansion with the loop of the expansion left out by the dummy threads.
ExpansionSkippedByDummy(m, t, iter, rec) ==
    IF KP.haveCoupledConstraints /\ rec < KP.expansionOrder /\ ~m.loc[t].isDummyThread
    THEN Arrive(m, At(IF iter = -1 THEN "b279" ELSE "b365", iter, rec, 0))
    ELSE Pass(IF iter = -1 THEN Correct(m, t) ELSE CorrectAgain(m, t), t, iter + 1)

\* Lines 276 and 362: the head of the expansion loop of solve iter.
Expansion(m, t, iter, rec) ==
    IF KP.haveCoupledConstraints /\ rec < KP.expansionOrder
    THEN Arrive(m, At(IF iter = -1 THEN "b279" ELSE "b365", iter, rec, 0))
    ELSE Pass(IF iter = -1 THEN Correct(m, t) ELSE CorrectAgain(m, t), t, iter + 1)

\* The code of thread t from its position p to the next barrier.
Run(m, t, p) ==
    CASE p.at = "start" -> Arrive(Direction(m, t), At("b229", -1, 0, 0))
      [] p.at = "b229" -> Expansion(Rhs(LoadXp(Matrix(m, t), t), t), t, -1, 0)
      [] p.at \in {"b279", "b365"} -> Expansion(Expand(m, t, p.rec), t, p.iter, p.rec + 1)
      [] p.at = "b324" -> Expansion(Projection(LoadXp(m, t), t), t, p.iter, 0)
      [] p.at = "b437" -> Round(m, t, 2)
      [] p.at = "b461" -> Round(m, t, 2 * p.divideBy)

\* itemIdx.get_sub_group() of thread t, within its block.
SubGroupOf(t) == ThreadInBlock(t) \div cfg.subGroupSize

\* Waits with no barrier at the head of a centripetal pass: the thread goes
\* on alone at line 324.
WaitsNotAtPass(t, p) ==
    IF p.at = "b324" THEN {t}
    ELSE IF p.at = "b461" /\ ~(c_threadsPerBlock \div p.divideBy > cfg.subGroupSize \div 2)
    THEN {u \in Threads : BlockOf(u) = BlockOf(t) /\ SubGroupOf(u) = SubGroupOf(t)}
    ELSE {u \in Threads : BlockOf(u) = BlockOf(t)}

\* The threads that thread t waits for at position p: its work-group, or its
\* sub-group at the barrier of line 465.
Waits(t, p) ==
    IF p.at = "b461" /\ ~(c_threadsPerBlock \div p.divideBy > cfg.subGroupSize \div 2)
    THEN {u \in Threads : BlockOf(u) = BlockOf(t) /\ SubGroupOf(u) = SubGroupOf(t)}
    ELSE {u \in Threads : BlockOf(u) = BlockOf(t)}

\* Thread t may leave the barrier it is at.
Released(t) ==
    /\ pc[t] # Done
    /\ pc[t].at = "start" \/ \A u \in Waits(t, pc[t]) : nbar[u] >= nbar[t]
    /\ cfg.workItems = "inOrder" =>
          \A u \in Threads : BlockOf(u) = BlockOf(t) /\ u < t =>
                                 pc[u] = Done \/ nbar[u] > nbar[t]

\* ------------------------------------------------------------------------
\* The device side of a run: launch, threads, copy back
\* ------------------------------------------------------------------------

\* getRunners(): SHAKE, CPU LINCS, and LINCS on the one device of the test
\* environment.
getRunners == <<"SHAKE", "LINCS", "LINCS_GPU">>

\* The virial accumulator before a launch: cleared, or holding a value.
SomeVirial == [k \in 0 .. 5 |-> Milli(k + 1)]

NoVirial == [k \in 0 .. 5 |-> 0]

InitialVirial == IF cfg.virial0 = "zero" THEN NoVirial ELSE SomeVirial

\* The tensor a host keeps: three rows.
ZeroTensor == <<Zero3, Zero3, Zero3>>

\* The device before any launch.
DeviceIdle ==
    /\ d_xp = TheSystem.xPrime
    /\ d_v = TheSystem.v
    /\ d_virialScaled = NoVirial
    /\ d_matrixA = [k \in DOMAIN KP.massFactors |-> 0]
    /\ sm_r = [b \in Blocks |-> [k \in SmRIndices |-> Zero3]]
    /\ sm_rhs = [b \in Blocks |-> [k \in SmRhsIndices |-> 0]]
    /\ sm_threadVirial = [b \in Blocks |-> [k \in SmVirialIndices |-> 0]]
    /\ pc = [t \in Threads |-> Done]
    /\ nbar = [t \in Threads |-> 0]
    /\ loc = [t \in Threads |-> NoLocals]
    /\ hist = [t \in Threads |-> <<>>]
    /\ virialAdds = [b \in Blocks |-> [k \in 0 .. 5 |-> 0]]
    /\ ran = 0

\* Set-up with every group of coupled constraints taken to fit a block.
SetNeverFails == FALSE

\* LincsGpu::set finds a group of coupled constraints that is larger than a
\* thread block.
SetFails ==
    \E c \in DOMAIN TheSystem.constraints :
        Cardinality(CoupledGroup(TheSystem, {c})) > c_threadsPerBlock

\* LincsGpu::set ends with a fatal error: nothing is handed to the kernel and
\* the run is over.
SetupAbort ==
    /\ stage = "apply"
    /\ getRunners[runner] = "LINCS_GPU"
    /\ SetFails
    /\ stage' = "fatal"
    /\ UNCHANGED <<pmePp, cfg, runner, xPrime_, v_, virialScaled_, applied, passed, device>>

\* launchLincsGpuKernel, after a set-up that did not fail: the buffers hold the
\* host's data, the accumulator its value before the launch, local memory is
\* not initialised, and every thread of the nd_range starts.
Launch ==
    /\ stage = "apply"
    /\ getRunners[runner] = "LINCS_GPU"
    /\ ~SetFails
    /\ d_xp' = xPrime_
    /\ d_v' = v_
    /\ d_virialScaled' = InitialVirial
    /\ d_matrixA' = [k \in DOMAIN KP.massFactors |-> Uninitialized]
    /\ sm_r' = [b \in Blocks |-> [k \in SmRIndices |->
                    <<Uninitialized, Uninitialized, Uninitialized>>]]
    /\ sm_rhs' = [b \in Blocks |-> [k \in SmRhsIndices |-> Uninitialized]]
    /\ sm_threadVirial' = [b \in Blocks |-> [k \in SmVirialIndices |-> Uninitialized]]
    /\ pc' = [t \in Threads |-> Start]
    /\ nbar' = [t \in Threads |-> 0]
    /\ loc' = [t \in Threads |-> NoLocals]
    /\ hist' = [t \in Threads |-> <<>>]
    /\ virialAdds' = [b \in Blocks |-> [k \in 0 .. 5 |-> 0]]
    /\ ran' = 0
    /\ applied' = Append(applied, [xPrime |-> xPrime_, v |-> v_, virialScaled |-> virialScaled_])
    /\ stage' = "kernel"
    /\ UNCHANGED <<pmePp, cfg, runner, xPrime_, v_, virialScaled_, passed>>

\* Lines 529-530: launchLincsGpuKernel dereferences d_v.buffer_ whatever
\* updateVelocities is.  With a null buffer_ the behaviour is undefined: the
\* launch goes on as in Launch, or the process faults here.
LaunchFault ==
    /\ stage = "apply"
    /\ getRunners[runner] = "LINCS_GPU"
    /\ ~SetFails
    /\ ~cfg.velocitiesPresent
    /\ stage' = "fault"
    /\ UNCHANGED <<pmePp, cfg, runner, xPrime_, v_, virialScaled_, applied, passed, device>>

\* Thread t runs from the barrier it is at to the next one.
Step(t) ==
    /\ stage = "kernel"
    /\ Released(t)
    /\ \E r \in {Run(Machine, t, pc[t])} :
          /\ d_xp' = r.m.xp
          /\ d_v' = r.m.v
          /\ d_virialScaled' = r.m.virial
          /\ d_matrixA' = r.m.matrixA
          /\ sm_r' = r.m.sm_r
          /\ sm_rhs' = r.m.sm_rhs
          /\ sm_threadVirial' = r.m.sm_threadVirial
          /\ loc' = r.m.loc
          /\ hist' = r.m.hist
          /\ virialAdds' = r.m.virialAdds
          /\ pc' = [pc EXCEPT ![t] = r.pc]
          /\ nbar' = [nbar EXCEPT ![t] = IF r.pc = Done THEN @ ELSE @ + 1]
    /\ ran' = ran + 1
    /\ UNCHANGED <<pmePp, cfg, host>>

KernelDone == \A t \in Threads : pc[t] = Done

\* Tensor with the component YZ in the place of ZY only.
TensorOneSided(h) == << <<h[0], h[1], h[2]>>, <<h[1], h[3], 0>>, <<h[2], h[4], h[5]>> >>

\* The symmetric tensor of the six components [XX, XY, XZ, YY, YZ, ZZ].
Tensor(h) == << <<h[0], h[1], h[2]>>, <<h[1], h[3], h[4]>>, <<h[2], h[4], h[5]>> >>

TAdd(a, b) == <<VAdd(a[1], b[1]), VAdd(a[2], b[2]), VAdd(a[3], b[3])>>

\* After the kernel: positions and velocities are copied to the host and the
\* six components are added to the host's tensor.
CopyBack ==
    /\ stage = "kernel"
    /\ KernelDone
    /\ xPrime_' = d_xp
    /\ v_' = IF cfg.updateVelocities THEN d_v ELSE v_
    /\ virialScaled_' = IF cfg.computeVirial THEN TAdd(virialScaled_, Tensor(d_virialScaled))
                        ELSE virialScaled_
    /\ stage' = IF cfg.test THEN "check" ELSE "end"
    /\ UNCHANGED <<pmePp, cfg, runner, applied, passed, device>>

\* ------------------------------------------------------------------------
\* The CPU runners
\* ------------------------------------------------------------------------

\* The constraints of the system of the test, as the CPU runners see them.
Constraints == DOMAIN TheSystem.constraints

AtomI(c) == TheSystem.constraints[c][2]

AtomJ(c) == TheSystem.constraints[c][3]

R0(c) == TheSystem.constraintsR0[TheSystem.constraints[c][1]]

InvMass(a) == InverseMasses(TheSystem)[a]

\* pbc_dx_aiuc under PbcType::Xyz, rvec_sub otherwise.
Displacement(r, i, j) ==
    IF cfg.pbc = "Xyz" THEN pbcDxAiucSycl(pbcAiuc, r[i], r[j]) ELSE VSub(r[i], r[j])

Norm(d) == Sqrt(VDot(d, d))

\* The sum of the function f over the finite set S of its arguments.
RECURSIVE SumOver(_, _)
SumOver(f, S) ==
    IF S = {} THEN 0
    ELSE LET a == CHOOSE b \in S : TRUE IN f[a] + SumOver(f, S \ {a})

\* Positions r with constraint c displaced by g along d: atom i by
\* -g * invMass_i * d, atom j by +g * invMass_j * d.
Displace(r, c, d, g) ==
    [r EXCEPT ![AtomI(c)] = VAdd(@, VScale(VNeg(VScale(d, g)), InvMass(AtomI(c)))),
              ![AtomJ(c)] = VAdd(@, VScale(VScale(d, g), InvMass(AtomJ(c))))]

RECURSIVE DisplaceAll(_, _, _, _)
DisplaceAll(r, d, g, S) ==
    IF S = {} THEN r
    ELSE LET c == CHOOSE b \in S : TRUE
         IN DisplaceAll(Displace(r, c, d[c], g[c]), d, g, S \ {c})

\* The tensor sum over the constraints of w[c] * d[c] (x) d[c].
OuterSum(w, d) ==
    LET Entry(a, b) == SumOver([c \in Constraints |-> Mul(Mul(w[c], d[c][a]), d[c][b])],
                               Constraints)
    IN <<<<Entry(1, 1), Entry(1, 2), Entry(1, 3)>>,
         <<Entry(1, 2), Entry(2, 2), Entry(2, 3)>>,
         <<Entry(1, 3), Entry(2, 3), Entry(3, 3)>>>>

\* The function f as the table of its values.
Table(f) == CHOOSE g \in {f} : g = f

\* LINCS on the CPU: the algorithm of the kernel, one constraint after the
\* other.
Normalized(dx) == VScale(dx, Rsqrt(VDot(dx, dx)))

LincsDirection(c) == Normalized(Displacement(TheSystem.x, AtomI(c), AtomJ(c)))

SqrtReducedMass(c) == Rsqrt(InvMass(AtomI(c)) + InvMass(AtomJ(c)))

Coupled(c) ==
    {c2 \in Constraints : c2 # c /\ {AtomI(c), AtomJ(c)} \cap {AtomI(c2), AtomJ(c2)} # {}}

\* The coefficient of the coupling of c and c2 in the matrix A, from the
\* directions dir and the factors mu of the constraints.
Coupling(dir, mu, c, c2) ==
    LET center == CHOOSE a \in {AtomI(c), AtomJ(c)} \cap {AtomI(c2), AtomJ(c2)} : TRUE
        sign == IF AtomI(c) = AtomI(c2) \/ AtomJ(c) = AtomJ(c2) THEN -1 ELSE 1
    IN Mul(sign * Mul(Mul(InvMass(center), mu[c]), mu[c2]), VDot(dir[c], dir[c2]))

LincsMatrix(dir, mu) ==
    Table([c \in Constraints |-> Table([c2 \in Coupled(c) |-> Coupling(dir, mu, c, c2)])])

\* What CPU LINCS keeps of the system: directions at x, factors, matrix A.
LincsSetup(dir, mu) ==
    [dir |-> dir, mu |-> mu, A |-> LincsMatrix(dir, mu),
     order |-> TheSystem.lincslincsExpansionOrder]

\* A mvb
LincsProduct(A, mvb) ==
    Table([c \in DOMAIN A |->
              SumOver([c2 \in DOMAIN A[c] |-> Mul(A[c][c2], mvb[c2])], DOMAIN A[c])])

\* The series st with the term next added to its sum.
LincsTerm(st, next) ==
    [sol |-> Table([c \in DOMAIN next |-> st.sol[c] + next[c]]), mvb |-> next,
     order |-> st.order - 1]

\* st.sol + A st.mvb + A A st.mvb + ..., with st.order terms.
RECURSIVE LincsSeries(_, _)
LincsSeries(A, st) ==
    IF st.order = 0 THEN st.sol
    ELSE LincsSeries(A, LincsTerm(st, LincsProduct(A, st.mvb)))

\* The solution sol scaled by the factors mu.
LincsScaled(mu, sol) == Table([c \in DOMAIN sol |-> Mul(mu[c], sol[c])])

\* The multipliers of one solve with right-hand side rhs.
LincsSolve(D, rhs) ==
    LincsScaled(D.mu, LincsSeries(D.A, [sol |-> rhs, mvb |-> rhs, order |-> D.order]))

LincsRhs(D, r) ==
    Table([c \in Constraints |->
              Mul(D.mu[c], VDot(D.dir[c], Displacement(r, AtomI(c), AtomJ(c))) - R0(c))])

\* The right-hand side of a centripetal pass for a constraint of factor mu
\* and length r0, from dlen2 = 2 r0^2 - dx^2.
Projected(mu, r0, dlen2) ==
    IF dlen2 > 0 THEN Mul(mu, r0 - Mul(dlen2, Rsqrt(dlen2))) ELSE Mul(mu, r0)

LincsProjection(D, r) ==
    Table([c \in Constraints |->
              Projected(D.mu[c], R0(c),
                        Mul(2 * Unit, Mul(R0(c), R0(c)))
                            - VDot(Displacement(r, AtomI(c), AtomJ(c)),
                                   Displacement(r, AtomI(c), AtomJ(c))))])

\* The state st of the solve moved by the multipliers g; one pass less is left.
LincsMove(D, st, g) ==
    [r |-> DisplaceAll(st.r, D.dir, g, Constraints),
     lambda |-> Table([c \in Constraints |-> st.lambda[c] + g[c]]),
     iter |-> st.iter - 1]

\* The state of the solve after the st.iter centripetal passes left.
RECURSIVE LincsPasses(_, _)
LincsPasses(D, st) ==
    IF st.iter = 0 THEN st
    ELSE LincsPasses(D, LincsMove(D, st, LincsSolve(D, LincsProjection(D, st.r))))

\* What the runner leaves: positions, velocities, virial.
LincsResult(D, st, vel) ==
    [xPrime |-> st.r,
     v |-> DisplaceAll(vel, Table([c \in Constraints |-> VScale(D.dir[c], invdt_)]),
                       st.lambda, Constraints),
     virialScaled |-> OuterSum(Table([c \in Constraints |-> Mul(R0(c), st.lambda[c])]), D.dir)]

\* The first solve, then lincsNIter centripetal passes.
LincsApply(D, r, vel) ==
    LincsResult(D,
                LincsPasses(D, LincsMove(D, [r |-> r, lambda |-> [c \in Constraints |-> 0],
                                             iter |-> TheSystem.lincsNIter + 1],
                                         LincsSolve(D, LincsRhs(D, r)))),
                vel)

\* The result of CPU LINCS on the positions r and velocities vel.
Lincs(r, vel) ==
    LincsApply(LincsSetup(Table([c \in Constraints |-> LincsDirection(c)]),
                          Table([c \in Constraints |-> SqrtReducedMass(c)])), r, vel)

\* SHAKE: sweeps over the constraints, each moved along its direction at x
\* until its squared length is r0^2, until a sweep moves none or the budget
\* of sweeps is used up.
ShakeSweeps == 60

\* The constraints in the order of a sweep.
SweepOrder == Ascending(Constraints)

\* The correction of a constraint of length r0 and half reduced mass hm whose
\* displacement is rij at x and rp now, zero when it is within the tolerance.
ShakeCorrection(rij, rp, r0, hm) ==
    IF Abs(Mul(r0, r0) - VDot(rp, rp)) > Mul(2 * TheSystem.shakeTolerance, Mul(r0, r0))
    THEN Div(Mul(Mul(r0, r0) - VDot(rp, rp), hm), VDot(rij, rp))
    ELSE 0

HalfOfReducedMass(c) == Div(Unit \div 2, InvMass(AtomI(c)) + InvMass(AtomJ(c)))

\* The state st of a sweep after constraint c is moved by acor along rij.
ShakeMove(st, c, rij, acor) ==
    [st EXCEPT !.r = Displace(@, c, rij, -acor),
               !.lambda[c] = @ + acor,
               !.moved = @ \/ acor # 0]

\* One sweep from constraint k of the order on: positions, accumulated
\* multipliers and whether a constraint was moved.
RECURSIVE ShakeSweep(_, _, _)
ShakeSweep(st, rij, k) ==
    IF k > Len(SweepOrder) THEN st
    ELSE ShakeSweep(ShakeMove(st, SweepOrder[k], rij[SweepOrder[k]],
                        ShakeCorrection(rij[SweepOrder[k]],
                            Displacement(st.r, AtomI(SweepOrder[k]), AtomJ(SweepOrder[k])),
                            R0(SweepOrder[k]), HalfOfReducedMass(SweepOrder[k]))),
                    rij, k + 1)

\* ShakeIterate that ends after one sweep and tells that no constraint was
\* moved.
ShakeOneSweep(st, rij) ==
    [ShakeSweep([st EXCEPT !.sweeps = @ - 1], rij, 1) EXCEPT !.moved = FALSE]

\* Sweeps until one moves no constraint or none of the st.sweeps is left.
RECURSIVE ShakeIterate(_, _)
ShakeIterate(st, rij) ==
    IF st.sweeps = 0 \/ ~st.moved THEN st
    ELSE ShakeIterate(ShakeSweep([st EXCEPT !.moved = FALSE, !.sweeps = @ - 1], rij, 1), rij)

\* What the runner leaves; converged tells whether the sweeps ended within
\* the budget.
ShakeResult(st, rij, vel) ==
    [xPrime |-> st.r,
     v |-> DisplaceAll(vel, rij, Table([c \in Constraints |-> -Mul(st.lambda[c], invdt_)]),
                       Constraints),
     virialScaled |-> OuterSum(Table([c \in Constraints |-> -st.lambda[c]]), rij),
     converged |-> ~st.moved]

ShakeApply(rij, r, vel) ==
    ShakeResult(ShakeIterate([r |-> r, lambda |-> Table([c \in Constraints |-> 0]),
                              moved |-> TRUE, sweeps |-> ShakeSweeps], rij),
                rij, vel)

\* The result of SHAKE on the positions r and velocities vel.
Shake(r, vel) ==
    ShakeApply(Table([c \in Constraints |-> Displacement(TheSystem.x, AtomI(c), AtomJ(c))]),
               r, vel)

\* ------------------------------------------------------------------------
\* The test: TEST_P(ConstraintsTest, ConstraintsTest)
\* ------------------------------------------------------------------------

\* EXPECT_REAL_EQ_TOL with an absolute tolerance.
WithinTolerance(a, b, tolerance) == Abs(a - b) <= tolerance

checkConstrainsLength(tolerance, r) ==
    \A c \in Constraints :
        WithinTolerance(R0(c), Norm(Displacement(r, AtomI(c), AtomJ(c))), tolerance)

checkConstrainsDirection(r) ==
    \A c \in Constraints :
        VDot(Displacement(TheSystem.x, AtomI(c), AtomJ(c)),
             Displacement(r, AtomI(c), AtomJ(c))) >= 0

\* Component d of the sum of mass * r over the atoms, divided by numAtoms.
CenterOfMass(r, d) ==
    Div(SumOver([a \in Atoms |-> Mul(TheSystem.masses[a], r[a][d])], Atoms),
        TheSystem.numAtoms * Unit)

checkCOMCoordinates(tolerance, r) ==
    \A d \in 1 .. 3 :
        WithinTolerance(CenterOfMass(r, d), CenterOfMass(TheSystem.xPrime, d), tolerance)

checkCOMVelocity(tolerance, vel) ==
    \A d \in 1 .. 3 :
        WithinTolerance(CenterOfMass(vel, d), CenterOfMass(TheSystem.v, d), tolerance)

checkVirialTensor(tolerance, virial) ==
    \A i \in 1 .. 3 : \A j \in 1 .. 3 :
        WithinTolerance(TheSystem.virialScaledRef[i][j], virial[i][j], tolerance)

\* What a runner is handed.
TestData == [xPrime |-> xPrime_, v |-> v_, virialScaled |-> virialScaled_]

\* testData.reset()
Reset ==
    /\ stage = "reset"
    /\ xPrime_' = TheSystem.xPrime
    /\ v_' = TheSystem.v
    /\ virialScaled_' = ZeroTensor
    /\ stage' = "apply"
    /\ UNCHANGED <<pmePp, cfg, runner, applied, passed, device>>

\* ShakeConstraintsRunner::applyConstraints
ApplyShake ==
    /\ stage = "apply"
    /\ getRunners[runner] = "SHAKE"
    /\ \E result \in {Shake(xPrime_, v_)} :
          /\ xPrime_' = result.xPrime
          /\ v_' = result.v
          /\ virialScaled_' = TAdd(virialScaled_, result.virialScaled)
    /\ applied' = Append(applied, TestData)
    /\ stage' = "check"
    /\ UNCHANGED <<pmePp, cfg, runner, passed, device>>

\* LincsConstraintsRunner::applyConstraints
ApplyLincs ==
    /\ stage = "apply"
    /\ getRunners[runner] = "LINCS"
    /\ \E result \in {Lincs(xPrime_, v_)} :
          /\ xPrime_' = result.xPrime
          /\ v_' = result.v
          /\ virialScaled_' = TAdd(virialScaled_, result.virialScaled)
    /\ applied' = Append(applied, TestData)
    /\ stage' = "check"
    /\ UNCHANGED <<pmePp, cfg, runner, passed, device>>

\* The five checks on the result of the current runner; then the next runner.
Check ==
    /\ stage = "check"
    /\ passed' = Append(passed,
          [length |-> checkConstrainsLength(TheSystem.lengthTolerance, xPrime_),
           direction |-> checkConstrainsDirection(xPrime_),
           comCoordinates |-> checkCOMCoordinates(TheSystem.comTolerance, xPrime_),
           comVelocity |-> checkCOMVelocity(TheSystem.comTolerance, v_),
           virial |-> checkVirialTensor(TheSystem.virialTolerance, virialScaled_)])
    /\ stage' = IF runner < Len(getRunners) THEN "reset" ELSE "end"
    /\ runner' = IF runner < Len(getRunners) THEN runner + 1 ELSE runner
    /\ UNCHANGED <<pmePp, cfg, xPrime_, v_, virialScaled_, applied, device>>

\* ------------------------------------------------------------------------
\* The runs
\* ------------------------------------------------------------------------

\* A run of the test: the GPU runner updates velocities and computes the
\* virial, into a cleared accumulator.
TestRun(layout, pbc, oob) ==
    [layout |-> layout, pbc |-> pbc, updateVelocities |-> TRUE, computeVirial |-> TRUE,
     oob |-> oob, virial0 |-> "zero", subGroupSize |-> 8, workItems |-> "concurrent",
     test |-> TRUE, velocitiesPresent |-> TRUE]

\* A launch of the kernel on its own.
KernelRun(layout, updateVelocities, computeVirial, oob, virial0, subGroupSize, workItems) ==
    [layout |-> layout, pbc |-> "No", updateVelocities |-> updateVelocities,
     computeVirial |-> computeVirial, oob |-> oob, virial0 |-> virial0,
     subGroupSize |-> subGroupSize, workItems |-> workItems, test |-> FALSE,
     velocitiesPresent |-> TRUE]

TestSystemNames == {n \in SystemNames : Systems[n].isTestSystem}

Runs ==
    {TestRun(l, "No", "kept") : l \in TestSystemNames}
    \cup {TestRun(l, "Xyz", "kept") : l \in {"OH", "disjoint"}}
    \cup {TestRun(l, "No", o) : l \in {"CH2", "triangle"}, o \in {"zero", "junk"}}
    \cup {KernelRun("CH2", uv, ~uv, "kept", "some", 8, "concurrent") : uv \in BOOLEAN}
    \cup {KernelRun("OH", uv, TRUE, o, "some", sg, "concurrent") :
             uv \in BOOLEAN, o \in {"kept", "junk"}, sg \in {1, 8}}
    \cup {KernelRun("twoBends", uv, FALSE, o, "zero", 8, "concurrent") :
             uv \in BOOLEAN, o \in {"kept", "zero", "junk"}}
    \cup {KernelRun("disjointSplit", TRUE, TRUE, "kept", "some", 8, "inOrder"),
          KernelRun("twoBendsWide", TRUE, TRUE, "kept", "zero", 8, "inOrder")}
    \* every choice of the flags on a system in which only the first CH2 group
    \* is constrained: three atoms are in no constraint
    \cup {KernelRun("oneBend", uv, cv, "junk", "some", 8, "concurrent") :
             uv \in BOOLEAN, cv \in BOOLEAN}
    \* layouts made by the placement of LincsGpu::set
    \cup {KernelRun("placed", TRUE, FALSE, "kept", "zero", 8, "concurrent"),
          KernelRun("placedWide", TRUE, FALSE, "kept", "zero", 8, "inOrder")}
    \* devices whose sub-groups are smaller than the six threads that add the
    \* virial of a block
    \cup {KernelRun("CH2", FALSE, TRUE, "kept", "some", sg, "concurrent") : sg \in {2, 4}}
    \* a pair that the first solve leaves longer than sqrt(2) times its length
    \cup {KernelRun("turned", TRUE, TRUE, "kept", "zero", 8, "concurrent")}
    \* blocks of one thread for a group of two coupled constraints
    \cup {KernelRun("tooNarrow", TRUE, FALSE, "kept", "zero", 8, "concurrent")}
    \* a launch without updateVelocities by a caller that holds no velocity
    \* buffer: d_v.buffer_ is null
    \cup {[KernelRun("twoBends", FALSE, FALSE, "kept", "zero", 8, "concurrent")
             EXCEPT !.velocitiesPresent = FALSE]}

\* The run with its system and what LincsGpu::set makes of it.
Configure(run, L, sys) ==
    run @@ [system |-> sys, threadsPerBlock |-> L.threadsPerBlock,
            kernelParams |-> BuildParams(L, sys)]

\* A launch of the kernel instantiated with or without haveCoupledConstraints
\* and with the given expansion order, whatever LincsGpu::set would choose.
KernelVariant(c, haveCoupledConstraints, expansionOrder) ==
    [c EXCEPT !.kernelParams.haveCoupledConstraints = haveCoupledConstraints,
              !.kernelParams.expansionOrder = expansionOrder]

\* ------------------------------------------------------------------------
\* PME-PP communication: PmePpCommGpu::Impl of one PP rank, the streams and
\* events of its device, and its PME rank
\* ------------------------------------------------------------------------

\* reinit is called with the sizes 0 .. MaxSize, MaxReinits times at most,
\* and MaxSteps steps are run.  A reallocation reserves the count asked for
\* and up to MaxSlack more.
MaxSize == 3
MaxReinits == 3
MaxSteps == 2
MaxSlack == 1

\* The stream of the PP rank's own work, the stream of the communication and
\* the stream of the PME rank.
StreamNames == {"local", "pmePpCommStream_", "pme"}

EventNames == {"coordinatesReadyOnDeviceEvent", "pmeCoordinatesSynchronizer_",
               "pmeForcesReady", "forcesReadySynchronizer_"}

\* The position of the host thread: the function it is in and the statement
\* it is at.
Within(in, k) == [in |-> in, k |-> k]

\* An operation of a stream: wait for mark n of event e, complete mark n of
\* event e, or move data (write, copy, compute, push, reduce).
Op(op, e, n) == [op |-> op, e |-> e, n |-> n]

Msg(kind, v) == [kind |-> kind, v |-> v]

\* GpuEventSynchronizer::enqueueWaitEvent: the stream waits for the last mark
\* of the event that was enqueued before the call, for none if there is none.
WaitOp(e) == Op("wait", e, events[e].recorded)

\* GpuEventSynchronizer::markEvent: the mark completes when the stream
\* reaches it.
MarkOp(e) == Op("mark", e, events[e].recorded + 1)

Marked(e) == [events EXCEPT ![e].recorded = @ + 1]

Enqueue(s, ops) == [streams EXCEPT ![s].ops = @ \o ops]

\* DeviceStream::synchronize returns when the stream has run all of its
\* operations.
Drained(s) == streams[s].done = Len(streams[s].ops)

\* The state after the constructor: no staging buffer, nothing enqueued.
PmePpConstructed(counts) ==
    /\ d_pmeForces_ = 0
    /\ d_pmeForcesSize_ = counts
    /\ d_pmeForcesSizeAlloc_ = counts
    /\ remotePmeXBuffer_ = 0
    /\ ppPc = Within("idle", 0)
    /\ step = 0
    /\ reinits = [calls |-> 0, size |-> 0]
    /\ streams = [s \in StreamNames |-> [ops |-> <<>>, done |-> 0]]
    /\ events = [e \in EventNames |-> [recorded |-> 0, completed |-> 0]]
    /\ toPme = <<>>
    /\ toPp = <<>>
    /\ pmeAddr = [gpu |-> 0, cpu |-> 0]
    /\ x = 0
    /\ stagingF = 0
    /\ cpuF = 0
    /\ remoteX = 0
    /\ pmeF = 0
    /\ arrived = <<>>
    /\ consumed = <<>>

\* Every reallocation, whatever the counts.
FitsNever(size, reserved) == FALSE

\* reallocateDeviceBuffer keeps the buffer when the count asked for is within
\* the reserved count.
Fits(size, reserved) == size <= reserved

\* PmePpCommGpu::Impl::reinit.  The caller reinitialises between steps, when
\* the device has run all that was enqueued.  A buffer that is reallocated is
\* the next allocation.  With thread-MPI the rank then
\* waits for the address of the PME rank's coordinate buffer and sends the
\* addresses of its two force buffers.
reinit ==
    /\ IF ppPc = Within("idle", 0)
       THEN /\ reinits.calls < MaxReinits
            /\ \A s \in StreamNames : Drained(s)
            /\ \E size \in 0 .. MaxSize :
                  /\ reinits' = [calls |-> reinits.calls + 1, size |-> size]
                  /\ d_pmeForcesSize_' = size
                  /\ IF Fits(size, d_pmeForcesSizeAlloc_)
                     THEN UNCHANGED <<d_pmeForces_, d_pmeForcesSizeAlloc_, stagingF>>
                     ELSE /\ d_pmeForcesSizeAlloc_' \in size .. size + MaxSlack
                          /\ d_pmeForces_' = d_pmeForces_ + 1
                          /\ stagingF' = 0
            /\ ppPc' = IF threadMpi THEN Within("reinit", 2) ELSE ppPc
            /\ UNCHANGED <<remotePmeXBuffer_, toPme, toPp>>
       ELSE /\ ppPc = Within("reinit", 2)
            /\ toPp # <<>>
            /\ Head(toPp).kind = "remotePmeXBuffer"
            /\ remotePmeXBuffer_' = Head(toPp).v
            /\ toPp' = Tail(toPp)
            /\ toPme' = toPme \o <<Msg("d_pmeForces_", d_pmeForces_),
                                   Msg("pmeCpuForceBufferData", 1)>>
            /\ ppPc' = Within("idle", 0)
            /\ UNCHANGED <<staging, stagingF, reinits>>
    /\ UNCHANGED <<constraining, build, step, streams, events, pmeAddr,
                   x, cpuF, remoteX, pmeF, arrived, consumed>>

\* The caller of a step: the coordinates of the step are written on the
\* device by the stream of the rank's own work, after the reduction of the
\* forces of the step before, from which they are computed.  That stream
\* then marks coordinatesReadyOnDeviceEvent, and sendCoordinatesToPme is
\* called with that event.
StartStep ==
    /\ ppPc = Within("idle", 0)
    /\ reinits.calls >= 1
    /\ step < MaxSteps
    /\ step' = step + 1
    /\ streams' = Enqueue("local", <<Op("write", "", step + 1),
                                     MarkOp("coordinatesReadyOnDeviceEvent")>>)
    /\ events' = Marked("coordinatesReadyOnDeviceEvent")
    /\ ppPc' = Within("sendCoordinatesToPme", 1)
    /\ UNCHANGED <<constraining, build, staging, remotePmeXBuffer_, reinits,
                   toPme, toPp, pmeAddr, data>>

\* The statements of sendCoordinatesToPmeCudaDirect, in their order.
SendCopyFirst == <<"cudaMemcpyAsync", "enqueueWaitEvent", "markEvent", "MPI_Send">>

SendDirect == <<"enqueueWaitEvent", "cudaMemcpyAsync", "markEvent", "MPI_Send">>

\* PmePpCommGpu::Impl::sendCoordinatesToPmeCudaDirect, a statement at a time.
sendCoordinatesToPmeCudaDirect ==
    /\ threadMpi
    /\ ppPc.in = "sendCoordinatesToPme"
    /\ LET stmt == SendDirect[ppPc.k] IN
       /\ streams' =
             CASE stmt = "enqueueWaitEvent" ->
                     Enqueue("pmePpCommStream_", <<WaitOp("coordinatesReadyOnDeviceEvent")>>)
               [] stmt = "cudaMemcpyAsync" ->
                     Enqueue("pmePpCommStream_", <<Op("copy", "", remotePmeXBuffer_)>>)
               [] stmt = "markEvent" ->
                     Enqueue("pmePpCommStream_", <<MarkOp("pmeCoordinatesSynchronizer_")>>)
               [] OTHER -> streams
       /\ events' = IF stmt = "markEvent"
                    THEN Marked("pmeCoordinatesSynchronizer_") ELSE events
       /\ toPme' = IF stmt = "MPI_Send"
                   THEN Append(toPme, Msg("pmeSync", 0)) ELSE toPme
    /\ ppPc' = IF ppPc.k < Len(SendDirect)
               THEN Within("sendCoordinatesToPme", ppPc.k + 1)
               ELSE Within("receiveForceFromPme", 1)
    /\ UNCHANGED <<constraining, build, staging, remotePmeXBuffer_, step, reinits,
                   toPp, pmeAddr, data>>

\* GpuEventSynchronizer::waitForEvent returns when the last mark of the event
\* has completed.
Completed(e) == events[e].completed >= events[e].recorded

\* PmePpCommGpu::Impl::sendCoordinatesToPmeCudaMpi: the host waits, then the
\* coordinates that are on the device are sent.
sendCoordinatesToPmeCudaMpi ==
    /\ ~threadMpi
    /\ ppPc.in = "sendCoordinatesToPme"
    /\ IF ppPc.k = 1
       THEN /\ Completed("coordinatesReadyOnDeviceEvent")
            /\ ppPc' = Within("sendCoordinatesToPme", 2)
            /\ UNCHANGED toPme
       ELSE /\ toPme' = Append(toPme, Msg("x", x))
            /\ ppPc' = Within("receiveForceFromPme", 1)
    /\ UNCHANGED <<constraining, build, staging, remotePmeXBuffer_, step, reinits,
                   streams, events, toPp, pmeAddr, data>>

\* The statements of receiveForceFromPmeCudaDirect, in their order; the last
\* is markEvent or synchronize.
ReceiveFinishFirst == <<"MPI_Recv", "finish", "enqueueWaitEvent">>

ReceiveDirect == <<"MPI_Recv", "enqueueWaitEvent", "finish">>

\* PmePpCommGpu::Impl::receiveForceFromPmeCudaDirect, a statement at a time.
receiveForceFromPmeCudaDirect ==
    /\ threadMpi
    /\ ppPc.in = "receiveForceFromPme"
    /\ LET stmt == ReceiveDirect[ppPc.k] IN
       /\ stmt = "MPI_Recv" => toPp # <<>> /\ Head(toPp).kind = "pmeForcesReady"
       /\ stmt = "finish" /\ ~receivePmeForceToGpu => Drained("pmePpCommStream_")
       /\ toPp' = IF stmt = "MPI_Recv" THEN Tail(toPp) ELSE toPp
       /\ streams' =
             CASE stmt = "enqueueWaitEvent" ->
                     Enqueue("pmePpCommStream_", <<WaitOp("pmeForcesReady")>>)
               [] stmt = "finish" /\ receivePmeForceToGpu ->
                     Enqueue("pmePpCommStream_", <<MarkOp("forcesReadySynchronizer_")>>)
               [] OTHER -> streams
       /\ events' = IF stmt = "finish" /\ receivePmeForceToGpu
                    THEN Marked("forcesReadySynchronizer_") ELSE events
    /\ ppPc' = IF ppPc.k < Len(ReceiveDirect)
               THEN Within("receiveForceFromPme", ppPc.k + 1)
               ELSE Within("reduce", 1)
    /\ UNCHANGED <<constraining, build, staging, remotePmeXBuffer_, step, reinits,
                   toPme, pmeAddr, data>>

\* PmePpCommGpu::Impl::receiveForceFromPmeCudaMpi: the forces are received to
\* pmeForcePtr, the staging buffer or the host buffer.
receiveForceFromPmeCudaMpi ==
    /\ ~threadMpi
    /\ ppPc.in = "receiveForceFromPme"
    /\ toPp # <<>>
    /\ Head(toPp).kind = "f"
    /\ stagingF' = IF receivePmeForceToGpu THEN Head(toPp).v ELSE stagingF
    /\ cpuF' = IF receivePmeForceToGpu THEN cpuF ELSE Head(toPp).v
    /\ toPp' = Tail(toPp)
    /\ ppPc' = Within("reduce", 1)
    /\ UNCHANGED <<constraining, build, staging, remotePmeXBuffer_, step, reinits,
                   streams, events, toPme, pmeAddr, x, remoteX, pmeF, arrived, consumed>>

\* The caller after receiveForceFromPme: the PME forces are reduced with the
\* other forces, on the device after a wait for getForcesReadySynchronizer()
\* when there is one, or on the host at once.
ReduceForces ==
    /\ ppPc = Within("reduce", 1)
    /\ streams' =
          CASE receivePmeForceToGpu /\ threadMpi ->
                  Enqueue("local", <<WaitOp("forcesReadySynchronizer_"), Op("reduce", "", step)>>)
            [] receivePmeForceToGpu /\ ~threadMpi ->
                  Enqueue("local", <<Op("reduce", "", step)>>)
            [] OTHER -> streams
    /\ consumed' = IF receivePmeForceToGpu THEN consumed ELSE Append(consumed, cpuF)
    /\ ppPc' = Within("idle", 0)
    /\ UNCHANGED <<constraining, build, staging, remotePmeXBuffer_, step, reinits,
                   events, toPme, toPp, pmeAddr, x, stagingF, cpuF, remoteX, pmeF, arrived>>

\* The device runs the next operation of a stream.  A copy goes to the
\* address it was enqueued with, a push to the address the PME rank holds.
Execute(s) ==
    /\ ~Drained(s)
    /\ LET o == streams[s].ops[streams[s].done + 1] IN
       /\ o.op = "wait" => events[o.e].completed >= o.n
       /\ streams' = [streams EXCEPT ![s].done = @ + 1]
       /\ events' = IF o.op = "mark" THEN [events EXCEPT ![o.e].completed = o.n] ELSE events
       /\ x' = IF o.op = "write" THEN o.n ELSE x
       /\ remoteX' = IF o.op = "copy" /\ o.n = 1 THEN x ELSE remoteX
       /\ arrived' = IF o.op = "copy" /\ o.n = 1 THEN Append(arrived, x) ELSE arrived
       /\ pmeF' = IF o.op = "compute" THEN remoteX ELSE pmeF
       /\ stagingF' = IF o.op = "push" /\ o.e = "gpu" /\ o.n = d_pmeForces_
                      THEN pmeF ELSE stagingF
       /\ cpuF' = IF o.op = "push" /\ o.e = "cpu" /\ o.n = 1 THEN pmeF ELSE cpuF
       /\ consumed' = IF o.op = "reduce" THEN Append(consumed, stagingF) ELSE consumed
    /\ UNCHANGED <<constraining, build, staging, remotePmeXBuffer_, ppPc, step, reinits,
                   toPme, toPp, pmeAddr>>

\* The PME rank sends the address of its coordinate buffer, address 1 of its
\* device, to the PP rank that waits for it in reinit.
PmeSendBuffer ==
    /\ ppPc = Within("reinit", 2)
    /\ toPp = <<>>
    /\ toPp' = <<Msg("remotePmeXBuffer", 1)>>
    /\ UNCHANGED <<constraining, build, staging, remotePmeXBuffer_, ppPc, step, reinits,
                   streams, events, toPme, pmeAddr, data>>

\* The PME rank receives the addresses of the PP rank's force buffers.
PmeReceiveBuffers ==
    /\ Len(toPme) >= 2
    /\ toPme[1].kind = "d_pmeForces_"
    /\ toPme[2].kind = "pmeCpuForceBufferData"
    /\ pmeAddr' = [gpu |-> toPme[1].v, cpu |-> toPme[2].v]
    /\ toPme' = SubSeq(toPme, 3, Len(toPme))
    /\ UNCHANGED <<constraining, build, staging, remotePmeXBuffer_, ppPc, step, reinits,
                   streams, events, toPp, data>>

\* The PME rank with thread-MPI: it receives the PP rank's event, makes its
\* stream wait for it, computes the forces from the coordinates it holds,
\* pushes them to the PP rank's buffer, marks its own event after the push
\* and sends that event.
PmeDirect ==
    /\ toPme # <<>>
    /\ Head(toPme).kind = "pmeSync"
    /\ toPme' = Tail(toPme)
    /\ streams' = Enqueue("pme",
                     <<WaitOp("pmeCoordinatesSynchronizer_"),
                       Op("compute", "", 0),
                       IF receivePmeForceToGpu THEN Op("push", "gpu", pmeAddr.gpu)
                                               ELSE Op("push", "cpu", pmeAddr.cpu),
                       MarkOp("pmeForcesReady")>>)
    /\ events' = Marked("pmeForcesReady")
    /\ toPp' = Append(toPp, Msg("pmeForcesReady", 0))
    /\ UNCHANGED <<constraining, build, staging, remotePmeXBuffer_, ppPc, step, reinits,
                   pmeAddr, data>>

\* The PME rank without thread-MPI: it receives the coordinates, computes the
\* forces and sends them.
PmeMpi ==
    /\ toPme # <<>>
    /\ Head(toPme).kind = "x"
    /\ toPme' = Tail(toPme)
    /\ remoteX' = Head(toPme).v
    /\ arrived' = Append(arrived, Head(toPme).v)
    /\ pmeF' = Head(toPme).v
    /\ toPp' = Append(toPp, Msg("f", Head(toPme).v))
    /\ UNCHANGED <<constraining, build, staging, remotePmeXBuffer_, ppPc, step, reinits,
                   streams, events, pmeAddr, x, stagingF, cpuF, consumed>>

\* The launches of both variants of the kernel on constraints that are not
\* coupled.
UncoupledRuns ==
    {KernelRun("disjoint", TRUE, TRUE, o, "some", 8, "concurrent") : o \in {"kept", "junk"}}

ExpansionOrders == {0, 3}

\* The state of the test data and of the device before the first runner.
Begun ==
    /\ stage = IF cfg.test THEN "reset" ELSE "apply"
    /\ runner = IF cfg.test THEN 1 ELSE Len(getRunners)
    /\ xPrime_ = TheSystem.xPrime
    /\ v_ = TheSystem.v
    /\ virialScaled_ = ZeroTensor
    /\ applied = <<>>
    /\ passed = <<>>
    /\ DeviceIdle

Init ==
    /\ cfg \in {Configure(run, Layouts[run.layout], Systems[Layouts[run.layout].sys]) :
                   run \in Runs}
               \cup {KernelVariant(Configure(run, Layouts[run.layout],
                                             Systems[Layouts[run.layout].sys]), have, order) :
                        run \in UncoupledRuns, have \in BOOLEAN, order \in ExpansionOrders}
               \* the kernel for coupled constraints with no iteration of the expansion
               \cup {KernelVariant(Configure(run, Layouts[run.layout],
                                             Systems[Layouts[run.layout].sys]), TRUE, 0) :
                        run \in {KernelRun("CH2", FALSE, FALSE, "kept", "zero", 8, "concurrent")}}
    /\ Begun
    /\ threadMpi = TRUE
    /\ receivePmeForceToGpu = TRUE
    /\ PmePpConstructed(0)

Next ==
    \/ Reset
    \/ ApplyShake
    \/ ApplyLincs
    \/ SetupAbort
    \/ Launch
    \/ LaunchFault
    \/ \E t \in Threads : Step(t)
    \/ CopyBack
    \/ Check

Spec == Init /\ [][Next]_vars

\* The device schedules its work-items: while a thread may leave its barrier
\* (or start), some thread is run at some time.  The steps of a thread are
\* finite, so fairness to the threads as a whole is fairness to each.  The
\* steps that count in ran are those of Step.
Scheduled ==
    /\ stage = "kernel"
    /\ \E t \in Threads : Released(t)
    /\ ran' = ran + 1

FairSpec == Spec /\ WF_ran(Scheduled)

\* The communication of a PP rank with its PME rank, in both builds and with
\* both destinations of the forces, while no constraints are applied.  The
\* counts of a buffer that was never allocated are zero or negative.
CommInit ==
    /\ cfg = Configure(TestRun("OH", "No", "kept"), Layouts["OH"], Systems["OH"])
    /\ Begun
    /\ threadMpi \in BOOLEAN
    /\ receivePmeForceToGpu \in BOOLEAN
    /\ \E counts \in {-1, 0} : PmePpConstructed(counts)

CommNext ==
    \/ reinit
    \/ StartStep
    \/ sendCoordinatesToPmeCudaDirect
    \/ sendCoordinatesToPmeCudaMpi
    \/ receiveForceFromPmeCudaDirect
    \/ receiveForceFromPmeCudaMpi
    \/ ReduceForces
    \/ \E s \in StreamNames : Execute(s)
    \/ PmeSendBuffer
    \/ PmeReceiveBuffers
    \/ PmeDirect
    \/ PmeMpi

CommSpec == CommInit /\ [][CommNext]_vars

\* ------------------------------------------------------------------------
\* Properties
\* ------------------------------------------------------------------------

\* The current runner is the GPU runner and its kernel has run to the end.
KernelFinished ==
    /\ getRunners[runner] = "LINCS_GPU"
    /\ stage \in {"kernel", "check", "end"}
    /\ KernelDone

\* A runner has been applied and its result is in the test data.
RunnerApplied == cfg.test /\ stage \in {"check", "end"}

NonDummyThreads == {t \in Threads : KP.constraints[t][1] # -1}

\* C1: after any runner has been applied to a test system, under either PBC,
\* every constraint's final length equals its target length within
\* lengthTolerance.
C1_FinalLengths ==
    RunnerApplied => checkConstrainsLength(TheSystem.lengthTolerance, xPrime_)

\* C2: the displacement of every constraint before the step and after the
\* solve have a non-negative dot product.
C2_NoFlip ==
    RunnerApplied => checkConstrainsDirection(xPrime_)

\* C3: the mass-weighted sum of the positions on the device is the one before
\* the launch after every single correction of the kernel, for every
\* interleaving of the threads (up to the rounding of the corrections, which
\* stays within comTolerance).
C3_MassWeightedPositions ==
    checkCOMCoordinates(TheSystem.comTolerance, d_xp)

\* A thread has corrected the positions while a thread with a constraint has not.
C3_Witness ==
    /\ stage = "kernel"
    /\ cfg.oob = "junk"
    /\ d_xp # TheSystem.xPrime
    /\ \E t \in NonDummyThreads : pc[t].at \in {"b229", "b279"}
    /\ \E t \in NonDummyThreads : pc[t].at = "b324" /\ loc[t].lagrangeScaled # 0

\* C4: when velocities are updated, the mass-weighted sum of the velocities
\* on the device is the one before the launch, in every state of the kernel
\* (up to rounding, within comTolerance).
C4_MassWeightedVelocities ==
    cfg.updateVelocities => checkCOMVelocity(TheSystem.comTolerance, d_v)

\* The kernel has finished and has changed the velocities.
C4_Witness ==
    /\ KernelFinished
    /\ cfg.updateVelocities
    /\ \E t \in NonDummyThreads : loc[t].inverseMassi # loc[t].inverseMassj
    /\ \A a \in Atoms : d_v[a] # TheSystem.v[a]

\* r0 * lambda_total * rc_a * rc_b of thread t, for the component k.
Contribution(t, k) ==
    Mul(Mul(Mul(loc[t].targetLength, loc[t].lagrangeScaled),
            loc[t].rc[VirialComponents[k + 1][1]]),
        loc[t].rc[VirialComponents[k + 1][2]])

\* C5: when the kernel has finished with computeVirial, each of the six
\* components of the accumulator has grown by the sum of r0 * lambda_total *
\* rc_a * rc_b over the threads with a constraint, whatever the layout and the
\* interleaving, and each block has added to each component exactly once.
C5_VirialSum ==
    KernelFinished /\ cfg.computeVirial =>
        /\ \A k \in 0 .. 5 :
              d_virialScaled[k] =
                  InitialVirial[k] + SumOver([t \in NonDummyThreads |-> Contribution(t, k)],
                                             NonDummyThreads)
        /\ \A b \in Blocks : \A k \in 0 .. 5 : virialAdds[b][k] = 1

\* A launch of two blocks, each with a constraint, has finished.
C5_Witness ==
    /\ KernelFinished
    /\ cfg.computeVirial
    /\ \A b \in Blocks : \E t \in NonDummyThreads : BlockOf(t) = b /\ Contribution(t, 0) # 0
    /\ Cardinality(Blocks) = 2

\* The total of block b for component k, left in the first slot of the
\* component by the reduction.
BlockVirial(b, k) == sm_threadVirial[b][k * c_threadsPerBlock]

\* C6: the accumulator is added to, never overwritten or reset: after the
\* kernel it holds the value it held at the launch plus the totals of the
\* blocks, and without computeVirial the value it held at the launch.
C6_VirialAccumulated ==
    KernelFinished =>
        \A k \in 0 .. 5 :
            d_virialScaled[k] =
                InitialVirial[k] + IF cfg.computeVirial
                                   THEN SumOver([b \in Blocks |-> BlockVirial(b, k)], Blocks)
                                   ELSE 0

\* A kernel launched on a non-zero accumulator has finished and added to it.
C6_Witness ==
    /\ KernelFinished
    /\ cfg.computeVirial
    /\ cfg.virial0 = "some"
    /\ \E k \in 0 .. 5 : d_virialScaled[k] # InitialVirial[k]

\* C7: the scaled virial tensor that a runner leaves in the test data is
\* symmetric.
C7_VirialSymmetric ==
    \A a \in 1 .. 3 : \A b \in 1 .. 3 : virialScaled_[a][b] = virialScaled_[b][a]

\* The GPU runner has left a tensor with non-zero off-diagonal entries.
C7_Witness ==
    /\ KernelFinished
    /\ stage \in {"check", "end"}
    /\ virialScaled_[1][2] # 0
    /\ virialScaled_[2][3] # 0

\* C8: for each test system the nine entries of the tensor of each runner
\* equal the reference within virialTolerance, and for the system of two
\* atoms of masses 1 and 12 the final length is within lengthTolerance.
C8_VirialReference ==
    RunnerApplied =>
        /\ checkVirialTensor(TheSystem.virialTolerance, virialScaled_)
        /\ cfg.layout = "OH" => checkConstrainsLength(TheSystem.lengthTolerance, xPrime_)

\* The checks that a runner has passed.
AllPassed(p) == p.length /\ p.direction /\ p.comCoordinates /\ p.comVelocity /\ p.virial

\* C9: every runner is applied to the test data as reset, whatever the
\* runner before it left, and the result of every runner passes the same
\* five checks.
C9_Interchangeable ==
    /\ \A r \in 1 .. Len(applied) :
          applied[r] = [xPrime |-> TheSystem.xPrime, v |-> TheSystem.v,
                        virialScaled |-> ZeroTensor]
    /\ \A r \in 1 .. Len(passed) : AllPassed(passed[r])

\* The coupled constraint in slot n of thread t.
CoupledConstraint(t, n) == KP.coupledConstraintsIndices[CoupledIndex(n - 1, t)]

\* C10: the values that a thread has read from sm_rhs in an iteration of the
\* expansion are the values that the threads of its coupled constraints
\* stored in the iteration before (the right-hand side in the first), for
\* every interleaving of the threads.
C10_PingPong ==
    \A t \in Threads : \A n \in 1 .. Len(loc[t].reads) :
        /\ Len(hist[CoupledConstraint(t, n)]) >= Len(hist[t]) - 1
        /\ loc[t].reads[n] = hist[CoupledConstraint(t, n)][Len(hist[t]) - 1]

\* C11: for every thread t, in any block, and every slot n of its coupled
\* constraints, the entry of the matrix A that t has computed is the mass
\* factor times the dot product of the direction of t and the direction that
\* the thread of the coupled constraint computed and stored before the
\* barrier of line 229.
C11_CoupledDirections ==
    \A t \in Threads : Len(hist[t]) >= 1 =>
        \A n \in 1 .. loc[t].coupledConstraintsCount :
            d_matrixA[CoupledIndex(n - 1, t)] =
                Mul(KP.massFactors[CoupledIndex(n - 1, t)],
                    VDot(loc[t].rc, loc[CoupledConstraint(t, n)].rc))

\* C12: a dummy thread has no effect: it never loads a position, every
\* quantity it computes (direction, right-hand sides, solution, Lagrange
\* multiplier, virial contribution) is zero, no step of it changes the
\* positions or the velocities on the device, and it arrives at every barrier
\* that the threads of its block arrive at.
C12_DummyThreads ==
    /\ [](stage = "kernel" =>
            \A t \in Threads \ NonDummyThreads :
                /\ loc[t].isDummyThread
                /\ loc[t].xi = Zero3 /\ loc[t].xj = Zero3
                /\ loc[t].rc = Zero3 /\ loc[t].sol = 0 /\ loc[t].lagrangeScaled = 0
                /\ \A k \in 1 .. Len(hist[t]) : hist[t][k] = 0
                /\ \A k \in 0 .. 5 : Contribution(t, k) = 0
                /\ pc[t].at = "b437" =>
                      \A k \in 0 .. 5 :
                          sm_threadVirial[BlockOf(t)][k * c_threadsPerBlock + ThreadInBlock(t)] = 0
                /\ KernelDone => \A u \in Threads : BlockOf(u) = BlockOf(t) => nbar[u] = nbar[t])
    /\ [][\A t \in Threads \ NonDummyThreads :
             stage = "kernel" /\ pc'[t] # pc[t] => d_xp' = d_xp /\ d_v' = d_v]_vars

\* A kernel with dummy threads has finished: the threads with a constraint
\* have moved atoms and changed velocities, and a dummy thread has arrived at
\* the barriers of the solve, the passes and the reduction.
C12_Witness ==
    /\ stage = "kernel"
    /\ KernelDone
    /\ cfg.updateVelocities /\ cfg.computeVirial
    /\ d_xp # xPrime_ /\ d_v # v_
    /\ \E t \in Threads \ NonDummyThreads : nbar[t] >= 5 /\ Len(hist[t]) >= 2

\* The rounding of the corrections of atom a: in every pass and for every
\* constraint of the atom, the correction rc * lambda is cut to the resolution
\* of the arithmetic and scaled by the inverse mass, the product is cut again,
\* and invdt scales what was cut.
CorrectionRounding(a) ==
    (invdt_ \div Unit + 1) * (KP.inverseMasses[a] \div Unit + 2) * (KP.numIterations + 1)
      * Cardinality({t \in NonDummyThreads : a \in {KP.constraints[t][1], KP.constraints[t][2]}})

\* C13: with updateVelocities, when the kernel has finished, the change of
\* the velocity of every atom is invdt times the change of its position over
\* the first solve and all the centripetal passes (up to the rounding of the
\* corrections).
C13_VelocityFromPositions ==
    stage = "kernel" /\ KernelDone /\ cfg.updateVelocities =>
        \A a \in Atoms : \A d \in 1 .. 3 :
            Abs((d_v[a][d] - v_[a][d]) - (d_xp[a][d] - xPrime_[a][d]) * (invdt_ \div Unit))
                <= CorrectionRounding(a)

\* A kernel with centripetal passes has finished and has changed the velocity
\* of every atom, one of them an atom of two constraints.
C13_Witness ==
    /\ stage = "kernel"
    /\ KernelDone
    /\ cfg.updateVelocities
    /\ KP.numIterations >= 1
    /\ \A a \in Atoms : \A d \in 1 .. 3 : Abs(d_v[a][d] - v_[a][d]) > 100 * CorrectionRounding(a)
    /\ \E t \in NonDummyThreads : loc[t].coupledConstraintsCount >= 1

\* C14: the expansion computes the truncated Neumann series: with b the
\* right-hand sides of a solve, the value that a thread holds after iteration
\* k of the expansion is its component of A * (the values after iteration
\* k - 1), that is of A^k b, and after expansionOrder iterations its solution
\* is the sum of its components of A^k b for k = 0 .. expansionOrder.
C14_NeumannSeries ==
    KP.haveCoupledConstraints =>
        \A t \in Threads : \A p \in 1 .. Len(hist[t]) :
            /\ (p - 1) % (KP.expansionOrder + 1) >= 1 =>
                  hist[t][p] =
                      SumOver([n \in 1 .. loc[t].coupledConstraintsCount |->
                                  Mul(d_matrixA[CoupledIndex(n - 1, t)],
                                      hist[CoupledConstraint(t, n)][p - 1])],
                              1 .. loc[t].coupledConstraintsCount)
            /\ (p - 1) % (KP.expansionOrder + 1) = KP.expansionOrder /\ p = Len(hist[t]) =>
                  loc[t].sol = SumOver([q \in p - KP.expansionOrder .. p |-> hist[t][q]],
                                       p - KP.expansionOrder .. p)

\* The solve of a single pair: the state st (positions of both atoms and the
\* multiplier so far) after a correction by the multiplier mu * b along rc.
PairCorrected(st, rc, mu, b, wi, wj) ==
    [xi |-> VAdd(st.xi, VScale(VNeg(VScale(rc, Mul(mu, b))), wi)),
     xj |-> VAdd(st.xj, VScale(VScale(rc, Mul(mu, b)), wj)),
     lambda |-> st.lambda + Mul(mu, b)]

\* The right-hand side of a centripetal pass for a pair at distance dx.
PairProjection(dx, mu, r0) ==
    IF Mul(2 * Unit, Mul(r0, r0)) - VDot(dx, dx) > 0
    THEN Mul(mu, r0 - Mul(Mul(2 * Unit, Mul(r0, r0)) - VDot(dx, dx),
                          Rsqrt(Mul(2 * Unit, Mul(r0, r0)) - VDot(dx, dx))))
    ELSE Mul(mu, r0)

RECURSIVE PairPasses(_, _, _, _, _, _, _)
PairPasses(st, rc, mu, r0, wi, wj, passes) ==
    IF passes = 0 THEN st
    ELSE PairPasses(PairCorrected(st, rc, mu,
                                  PairProjection(pbcDxAiucSycl(pbcAiuc, st.xi, st.xj), mu, r0),
                                  wi, wj),
                    rc, mu, r0, wi, wj, passes - 1)

\* The closed form for the pair of thread t, from the data of the launch.
SinglePair(t, i, j, rc, mu, r0) ==
    PairPasses(PairCorrected([xi |-> xPrime_[i], xj |-> xPrime_[j], lambda |-> 0], rc, mu,
                             Mul(mu, VDot(rc, pbcDxAiucSycl(pbcAiuc, xPrime_[i], xPrime_[j])) - r0),
                             KP.inverseMasses[i], KP.inverseMasses[j]),
               rc, mu, r0, KP.inverseMasses[i], KP.inverseMasses[j], KP.numIterations)

ConstrainedAtoms ==
    {KP.constraints[t][1] : t \in NonDummyThreads} \cup {KP.constraints[t][2] : t \in NonDummyThreads}

\* C16: the kernel changes nothing but what it is asked to: the positions x
\* before the update are never written; without updateVelocities no velocity
\* changes; without computeVirial the accumulator keeps its value; and the
\* position and the velocity of an atom in no constraint keep theirs.
C16_Frame ==
    /\ [](stage = "kernel" =>
            /\ ~cfg.updateVelocities => d_v = v_
            /\ ~cfg.computeVirial => d_virialScaled = InitialVirial
            /\ \A a \in Atoms \ ConstrainedAtoms : d_xp[a] = xPrime_[a] /\ d_v[a] = v_[a])
    /\ [][a_x' = a_x]_vars

\* A kernel without updateVelocities and computeVirial has finished on a
\* system with atoms in no constraint and has moved the constrained atoms.
C16_Witness ==
    /\ stage = "kernel"
    /\ KernelDone
    /\ ~cfg.updateVelocities /\ ~cfg.computeVirial
    /\ Atoms \ ConstrainedAtoms # {}
    /\ \A a \in ConstrainedAtoms : d_xp[a] # xPrime_[a]

\* C17: launchLincsGpuKernel without updateVelocities completes without
\* dereferencing d_v: called with an absent velocity buffer it does not fault.
C17_AbsentVelocities ==
    ~cfg.updateVelocities /\ ~cfg.velocitiesPresent => stage # "fault"

\* The barriers that every thread of a launch arrives at: the barrier of line
\* 229, one per iteration of the expansion of every solve, one per centripetal
\* pass, and with computeVirial the barrier of line 437 and one per round of
\* the reduction.
BarrierBudget ==
    1 + (KP.numIterations + 1) * (IF KP.haveCoupledConstraints THEN KP.expansionOrder ELSE 0)
      + KP.numIterations
      + (IF cfg.computeVirial
         THEN 1 + Cardinality({k \in 1 .. c_threadsPerBlock : 2 ^ k <= c_threadsPerBlock})
         ELSE 0)

\* C18: the kernel has a fixed budget: every thread does the first solve and
\* exactly numIterations passes, each with exactly expansionOrder iterations
\* of the expansion, and arrives at the same barriers the same number of
\* times as the other threads of its work-group; while the kernel runs some
\* thread can go on, and every launch ends: no thread waits at a barrier for
\* ever.
C18_FixedBudget ==
    /\ [](stage = "kernel" =>
            /\ \A t \in Threads :
                  /\ nbar[t] <= BarrierBudget
                  /\ pc[t] = Done =>
                        /\ nbar[t] = BarrierBudget
                        /\ Len(hist[t]) =
                              (KP.numIterations + 1)
                                * (1 + IF KP.haveCoupledConstraints THEN KP.expansionOrder ELSE 0)
            /\ ~KernelDone => \E t \in Threads : Released(t))
    /\ (stage = "kernel" ~> KernelDone)

\* A kernel of two work-groups with coupled constraints has finished the
\* solve, the passes and the reduction.
C18_Witness ==
    /\ stage = "kernel"
    /\ KernelDone
    /\ Cardinality(Blocks) = 2
    /\ KP.haveCoupledConstraints /\ KP.expansionOrder >= 2 /\ KP.numIterations >= 1
    /\ cfg.computeVirial
    /\ \A t \in Threads : nbar[t] >= 10

C20_BlockLocalCoupling ==
    ~SetFails =>
        /\ \A t \in Threads : \A n \in 1 .. KP.coupledConstraintsCounts[t] :
              BlockOf(CoupledConstraint(t, n)) = BlockOf(t)
        /\ \A t \in NonDummyThreads : \A u \in NonDummyThreads :
              {KP.constraints[t][1], KP.constraints[t][2]}
                  \cap {KP.constraints[u][1], KP.constraints[u][2]} # {}
                => BlockOf(t) = BlockOf(u)

\* A kernel has finished on a layout in which a group of coupled constraints
\* was moved to the second block, leaving a dummy thread in the first.
C20_Witness ==
    /\ stage = "kernel"
    /\ KernelDone
    /\ cfg.layout = "placed"
    /\ Cardinality(Blocks) = 2
    /\ \E t \in Threads \ NonDummyThreads : BlockOf(t) = 0
    /\ \A t \in NonDummyThreads : KP.coupledConstraintsCounts[t] >= 1
    /\ \A a \in Atoms : d_xp[a] # xPrime_[a]

\* The threads of the constraints of the coupled group of the constraint of
\* thread t.
GroupThreads(t) ==
    {u \in NonDummyThreads :
        \E c \in DOMAIN TheSystem.constraints :
            /\ <<TheSystem.constraints[c][2], TheSystem.constraints[c][3]>> = KP.constraints[t]
            /\ \E d \in CoupledGroup(TheSystem, {c}) :
                  <<TheSystem.constraints[d][2], TheSystem.constraints[d][3]>> = KP.constraints[u]}

\* C21: when a group of coupled constraints is larger than a thread block,
\* the set-up ends with a fatal error before any step: no kernel is launched,
\* no runner result is checked and the device is as before; and whenever the
\* kernel runs, the threads of every group of coupled constraints are in one
\* block.
C21_FatalSetup ==
    /\ SetFails =>
          /\ stage \in {"apply", "fatal"}
          /\ ran = 0 /\ KernelDone
          /\ d_xp = TheSystem.xPrime /\ d_v = TheSystem.v
          /\ applied = <<>>
    /\ stage = "kernel" =>
          \A t \in NonDummyThreads : \A u \in GroupThreads(t) : BlockOf(u) = BlockOf(t)

\* The set-up has ended with a fatal error on a group of two coupled
\* constraints and blocks of one thread.
C21_Witness ==
    /\ stage = "fatal"
    /\ SetFails
    /\ c_threadsPerBlock = 1
    /\ \E c \in DOMAIN TheSystem.constraints : Cardinality(CoupledGroup(TheSystem, {c})) = 2

\* The corrections of the positions that a thread at the position p has
\* applied: that of the first solve and those of the passes before p.iter.
CorrectionsApplied(p) ==
    CASE p.at \in {"start", "b229", "b279"} -> 0
      [] p.at \in {"b324", "b365"} -> p.iter + 1
      [] OTHER -> KP.numIterations + 1

\* The threads of the block of thread t whose constraints share an atom with
\* the constraint of t.
Neighbours(t) ==
    {u \in NonDummyThreads \ {t} :
        /\ BlockOf(u) = BlockOf(t)
        /\ {KP.constraints[t][1], KP.constraints[t][2]}
               \cap {KP.constraints[u][1], KP.constraints[u][2]} # {}}

\* C22: in every solve (the first or a centripetal pass) a thread loads the
\* positions of its atoms before any thread of its block whose constraint
\* shares an atom with it has applied the correction of that solve, for every
\* interleaving and every expansion order from 0 on: the positions from which
\* the right-hand side of the first solve was computed are those of the
\* launch, and a thread that loads has applied as many corrections as each of
\* these threads.
C22_LoadsBeforeCorrections ==
    /\ [](stage = "kernel" =>
            \A t \in NonDummyThreads :
                pc[t].at = "b279" \/ (pc[t].at = "b324" /\ pc[t].iter = 0) =>
                    loc[t].xi = xPrime_[loc[t].i] /\ loc[t].xj = xPrime_[loc[t].j])
    /\ [][\A t \in NonDummyThreads :
             stage = "kernel" /\ pc'[t] # pc[t] /\ pc[t].at \in {"b229", "b324"} =>
                 \A u \in Neighbours(t) :
                     CorrectionsApplied(pc[u]) <= CorrectionsApplied(pc[t])]_vars

\* C23: at the start of every centripetal pass the positions that a thread
\* loads hold the corrections of the solve before from every thread of its
\* block that shares an atom with it: when a thread leaves the barrier of line
\* 324 for pass k, each of these threads has applied the first correction and
\* those of the passes before k, and the thread loads the positions that the
\* device holds then.
C23_PassSeesCorrections ==
    [][\A t \in NonDummyThreads :
          stage = "kernel" /\ pc'[t] # pc[t] /\ pc[t].at = "b324" =>
              /\ \A u \in Neighbours(t) : CorrectionsApplied(pc[u]) >= pc[t].iter + 1
              /\ loc'[t].xi = d_xp[loc[t].i]
              /\ loc'[t].xj = d_xp[loc[t].j]]_vars

\* A thread has loaded, for the first pass, positions that are not those of
\* the launch, while a thread of its block that shares an atom with it is
\* still at the barrier of the pass.
C23_Witness ==
    /\ stage = "kernel"
    /\ \E t \in NonDummyThreads :
          /\ pc[t].at = "b365" /\ pc[t].iter = 0
          /\ loc[t].xi # xPrime_[loc[t].i] /\ loc[t].xj # xPrime_[loc[t].j]
          /\ \E u \in Neighbours(t) : pc[u].at = "b324" /\ pc[u].iter = 0

\* The iteration of the expansion in which thread t made the reads that it
\* holds.
LastRec(t) ==
    IF pc[t].at \in {"b279", "b365"} THEN pc[t].rec - 1 ELSE KP.expansionOrder - 1

\* C24: every index that the kernel uses for a local buffer is inside the
\* range of its accessor (c_threadsPerBlock elements for sm_r and sm_rhs,
\* 6 * c_threadsPerBlock for sm_threadVirial), for any number of blocks and
\* any expansion order from 1 on: the reads of a thread from sm_r and sm_rhs
\* at the indices of its coupled constraints are in range, and no step of a
\* thread stores behind the range.
C24_LocalIndices ==
    /\ [](stage = "kernel" =>
            \A t \in Threads :
                /\ \A n \in 1 .. loc[t].coupledConstraintsCount :
                      CoupledConstraint(t, n) < c_threadsPerBlock
                /\ \A n \in 1 .. Len(loc[t].reads) :
                      CoupledConstraint(t, n) + c_threadsPerBlock * (LastRec(t) % 2)
                          < c_threadsPerBlock)
    /\ [][stage = "kernel" =>
             \A b \in Blocks :
                 /\ \A k \in SmRIndices : k >= c_threadsPerBlock => sm_r'[b][k] = sm_r[b][k]
                 /\ \A k \in SmRhsIndices :
                       k >= c_threadsPerBlock => sm_rhs'[b][k] = sm_rhs[b][k]
                 /\ DOMAIN sm_threadVirial'[b] = 0 .. 6 * c_threadsPerBlock - 1]_vars

\* The round of the reduction that a thread at the position p runs next:
\* its divideBy.
NextRound(p) == IF p.at = "b437" THEN 2 ELSE 2 * p.divideBy

\* C25: the reduction of the virial in a block is free of races, for every
\* size of the sub-groups: when a thread adds slot tib + dividedAt to its slot
\* in a round, the thread of that slot has finished the round before; when
\* one of the first six threads adds the first slot of its component to the
\* accumulator, the first thread of the block has finished the last round,
\* and what is added is the sum of the values of all threads of the block.
C25_ReductionRaceFree ==
    [][\A t \in Threads :
          stage = "kernel" /\ pc'[t] # pc[t] /\ pc[t].at \in {"b437", "b461"} =>
              IF NextRound(pc[t]) <= c_threadsPerBlock
              THEN ThreadInBlock(t) < c_threadsPerBlock \div NextRound(pc[t]) =>
                       nbar[t + c_threadsPerBlock \div NextRound(pc[t])] >= nbar[t]
              ELSE ThreadInBlock(t) < 6 =>
                       /\ nbar[t - ThreadInBlock(t)] >= nbar[t]
                       /\ d_virialScaled'[ThreadInBlock(t)] =
                             d_virialScaled[ThreadInBlock(t)]
                               + SumOver([u \in {w \in Threads : BlockOf(w) = BlockOf(t)} |->
                                             Contribution(u, ThreadInBlock(t))],
                                         {w \in Threads : BlockOf(w) = BlockOf(t)})]_vars

\* The values that a thread stores to sm_rhs in one solve: the right-hand
\* side and one per iteration of the expansion.
StoresPerSolve == 1 + IF KP.haveCoupledConstraints THEN KP.expansionOrder ELSE 0

\* The place in the stores of thread t of the right-hand side of the solve
\* that it is in.
LastRhs(t) == Len(hist[t]) - ((Len(hist[t]) - 1) % StoresPerSolve)

\* dlen2 = 2 r0^2 - |dx|^2 for the positions that thread t has loaded.
CorrectedDeviation(t) ==
    Mul(2 * Unit, Mul(loc[t].targetLength, loc[t].targetLength))
      - VDot(pbcDxAiucSycl(pbcAiuc, loc[t].xi, loc[t].xj),
             pbcDxAiucSycl(pbcAiuc, loc[t].xi, loc[t].xj))

\* C26: the right-hand side of a centripetal pass is, with dlen2 = 2 r0^2 -
\* |dx|^2 for the positions loaded in the pass, sqrt(reduced mass) * (r0 -
\* sqrt(dlen2)) when dlen2 > 0 (up to the rounding of dlen2 * rsqrt(dlen2))
\* and sqrt(reduced mass) * r0 otherwise; no root of a non-positive number is
\* taken, and the value lies between sqrt(reduced mass) * r0 * (1 - sqrt(2))
\* and sqrt(reduced mass) * r0.
C26_Projection ==
    stage = "kernel" =>
        \A t \in Threads : LastRhs(t) > 1 =>
            /\ CorrectedDeviation(t) > 0 =>
                  Abs(hist[t][LastRhs(t)]
                        - Mul(loc[t].sqrtReducedMass,
                              loc[t].targetLength - Sqrt(CorrectedDeviation(t))))
                      <= (CorrectedDeviation(t) \div Unit + 3)
                           * (loc[t].sqrtReducedMass \div Unit + 1)
            /\ CorrectedDeviation(t) <= 0 =>
                  hist[t][LastRhs(t)] = Mul(loc[t].sqrtReducedMass, loc[t].targetLength)
            /\ Abs(hist[t][LastRhs(t)]) <= Mul(loc[t].sqrtReducedMass, loc[t].targetLength)

\* A kernel has finished in which a thread has computed the right-hand side
\* of a pass for a pair longer than sqrt(2) times its target length.
C26_Witness ==
    /\ stage = "kernel"
    /\ KernelDone
    /\ \E t \in NonDummyThreads :
          /\ LastRhs(t) > 1
          /\ hist[t][LastRhs(t)] # 0
          /\ CorrectedDeviation(t) < 0

\* C27: every element of the matrix A belongs to one thread: the indices
\* n * numConstraintsThreads + threadIndex of the slots of two threads never
\* coincide and lie in the matrix; a step of a thread changes elements of its
\* own slots only, and only in the construction of the matrix after the
\* barrier of line 229, so that an element, once written, keeps its value
\* and is read by its thread alone.
C27_MatrixOwnership ==
    /\ [](\A t \in Threads : \A n \in 0 .. KP.coupledConstraintsCounts[t] - 1 :
            /\ CoupledIndex(n, t) \in DOMAIN d_matrixA
            /\ \A u \in Threads : \A m \in 0 .. KP.coupledConstraintsCounts[u] - 1 :
                  CoupledIndex(n, t) = CoupledIndex(m, u) => t = u /\ n = m)
    /\ [][stage = "kernel" =>
             \A t \in Threads : pc'[t] # pc[t] =>
                 \A k \in DOMAIN d_matrixA : d_matrixA'[k] # d_matrixA[k] =>
                     /\ pc[t].at = "b229"
                     /\ \E n \in 0 .. KP.coupledConstraintsCounts[t] - 1 :
                           k = CoupledIndex(n, t)]_vars

\* A kernel of two work-groups has finished, and every thread with a
\* constraint has written the element of its first slot over what the matrix
\* held at the launch.
C27_Witness ==
    /\ stage = "kernel"
    /\ KernelDone
    /\ Cardinality(Blocks) = 2
    /\ cfg.oob = "junk"
    /\ \A t \in NonDummyThreads :
          /\ KP.coupledConstraintsCounts[t] >= 1
          /\ d_matrixA[CoupledIndex(0, t)] # Uninitialized

\* ------------------------------------------------------------------------
\* The staging buffer of the PME forces
\* ------------------------------------------------------------------------

\* C28: the staging buffer of reinit grows only.  After any calls of reinit
\* the actual count is the size that the last call asked for and is at most
\* the reserved count; the reserved count never decreases; and the buffer is
\* reallocated only by a call of reinit that asks for more than the reserved
\* count of before the call.
C28_GrowOnly ==
    /\ [](/\ reinits.calls >= 1 => d_pmeForcesSize_ = reinits.size
          /\ d_pmeForcesSize_ <= d_pmeForcesSizeAlloc_)
    /\ [][/\ d_pmeForcesSizeAlloc_' >= d_pmeForcesSizeAlloc_
          /\ d_pmeForces_' # d_pmeForces_ =>
                /\ reinits'.calls = reinits.calls + 1
                /\ reinits'.size > d_pmeForcesSizeAlloc_]_vars

\* Three calls of reinit, of which one asked for no more than was reserved
\* and kept the buffer and two reallocated it; more is reserved than the last
\* call asked for, and a step of the communication has used the buffer.
C28_Witness ==
    /\ reinits.calls = 3
    /\ d_pmeForces_ = 2
    /\ d_pmeForcesSize_ = reinits.size
    /\ d_pmeForcesSize_ < d_pmeForcesSizeAlloc_
    /\ consumed = <<1>>

\* ------------------------------------------------------------------------
\* The order of the transfers between the PP rank and the PME rank
\* ------------------------------------------------------------------------

\* What was enqueued on the stream of the communication, in order.
CommOps == streams["pmePpCommStream_"].ops

\* The number of copies among the first i operations of that stream.
CopiesTo(i) == Cardinality({j \in 1 .. i : CommOps[j].op = "copy"})

\* The events of the PP rank that were sent to the PME rank: those it has
\* taken, for each of which it marked its own event, and those in flight.
SyncsSent ==
    events["pmeForcesReady"].recorded
    + Cardinality({j \in DOMAIN toPme : toPme[j].kind = "pmeSync"})

\* C29: coordinates are not sent to the PME rank before they are ready on the
\* device.  With thread-MPI the copy to the PME rank's buffer is enqueued
\* right after a wait for the mark of coordinatesReadyOnDeviceEvent of its
\* step, pmeCoordinatesSynchronizer_ is marked right after the copy, and the
\* event is sent only when it is marked.  Without thread-MPI the host is past
\* its wait only when the event has completed, and what it sends are the
\* coordinates of the step.  In both builds the coordinates that arrive at
\* the PME rank are those of steps 1, 2, ... in turn.
C29_CoordinatesReady ==
    /\ \A i \in DOMAIN CommOps :
          /\ CommOps[i].op = "copy" =>
                /\ i > 1
                /\ CommOps[i - 1] = Op("wait", "coordinatesReadyOnDeviceEvent", CopiesTo(i))
          /\ CommOps[i].op = "mark" /\ CommOps[i].e = "pmeCoordinatesSynchronizer_" =>
                /\ i > 1
                /\ CommOps[i - 1].op = "copy"
    /\ SyncsSent <= events["pmeCoordinatesSynchronizer_"].recorded
    /\ ~threadMpi /\ ppPc = Within("sendCoordinatesToPme", 2) =>
          /\ events["coordinatesReadyOnDeviceEvent"].completed = step
          /\ x = step
    /\ \A j \in DOMAIN toPme : toPme[j].kind = "x" => toPme[j].v = step
    /\ \A i \in DOMAIN arrived : arrived[i] = i

\* With thread-MPI, in the second step: the copy is enqueued and the event is
\* sent while the coordinates of the step are not yet written; the PME rank
\* holds those of the first step.
C29_Witness ==
    /\ threadMpi
    /\ step = 2
    /\ x = 1
    /\ CopiesTo(Len(CommOps)) = 2
    /\ SyncsSent = 2
    /\ arrived = <<1>>

\* C30: the forces of the PME rank are not reduced before its push has
\* completed.  With thread-MPI the host is past its receive only when the PME
\* rank has marked its event for the step; forcesReadySynchronizer_ is marked
\* right after a wait for that mark and so completes only after it; and when
\* the forces go to the host, the host reaches the reduction only when the
\* stream is drained and the forces of the step are in the host buffer.  In
\* every run the forces that are reduced are those of steps 1, 2, ... in
\* turn.
C30_ForcesArrived ==
    /\ threadMpi /\ ppPc.in = "receiveForceFromPme" /\ ppPc.k >= 2 =>
          events["pmeForcesReady"].recorded = step
    /\ \A i \in DOMAIN CommOps :
          CommOps[i].op = "mark" /\ CommOps[i].e = "forcesReadySynchronizer_" =>
             /\ i > 1
             /\ CommOps[i - 1] = Op("wait", "pmeForcesReady", CommOps[i].n)
    /\ events["forcesReadySynchronizer_"].completed <= events["pmeForcesReady"].completed
    /\ threadMpi /\ ~receivePmeForceToGpu /\ ppPc = Within("reduce", 1) =>
          /\ Drained("pmePpCommStream_")
          /\ events["pmeForcesReady"].completed = step
          /\ cpuF = step
    /\ \A i \in DOMAIN consumed : consumed[i] = i

\* With thread-MPI and the forces received to the device: the forces of two
\* steps were reduced on the device, each after the push of its step.
C30_Witness ==
    /\ threadMpi
    /\ receivePmeForceToGpu
    /\ events["forcesReadySynchronizer_"].completed = 2
    /\ consumed = <<1, 2>>

====
